---- MODULE Spec2Model ----
(***************************************************************************)
(* Model of the MRR normalisation and retention engine of eqho-finance     *)
(* (backend/app/services/stripe_service.py, retention_service.py,          *)
(* metrics_calculator.py, cache_service.py, cashflow_service.py,           *)
(* api/v1/revenue_projections.py, api/v1/attrition.py).                    *)
(*                                                                         *)
(* Money.  The code keeps money in Python floats: cents / 100, then        *)
(* multiplied and divided per billing interval, summed, and rounded with   *)
(* round(x, 2).  The model keeps every unrounded quantity as an exact      *)
(* fraction (an integer numerator over a stated denominator) and every     *)
(* rounded quantity as an integer number of cents.  A binary double is     *)
(* within a few ulps of the exact fraction, so round(x, 2) returns the     *)
(* nearest cent whenever the exact value is not on a half cent.  On a half *)
(* cent the double lies a hair above or below it and the direction depends *)
(* on the representation error of the operations that produced it:         *)
(*     round(0.18 / 12, 2)      = 0.01     (18 cents a year)               *)
(*     round(0.54 / 12 / 3, 2)  = 0.02     (54 cents every 3 years)        *)
(* both of which are exactly 1.5 cents.  The model therefore takes the     *)
(* direction of a half-cent rounding as an input of each float             *)
(* computation (tie = 0: down, tie = 1: up); two computations that execute *)
(* the same float operations on the same operands produce the same double  *)
(* and share the direction.                                                *)
(*                                                                         *)
(* Python values.  None as an interval is the string "None"; a dict key    *)
(* interval_count that is absent, None or an int is told apart by the      *)
(* field ic_kind ("absent", "null", "int"); a timestamp that is None is 0  *)
(* (the code tests timestamps by truthiness, and 0 is falsy as well).      *)
(* A call returns [exc |-> "none", value |-> v] or, when it raises,        *)
(* [exc |-> <exception name>, value |-> 0].                                *)
(***************************************************************************)
EXTENDS Integers, Sequences, FiniteSets, TLC

VARIABLES
    subscriptions,  \* the List[Dict] handed to the aggregator functions
    stripe,         \* the payment provider: its objects, or how it answers
    now,            \* datetime.now(): days, or seconds for the memory cache
    op,             \* the operation that ran last
    arg,            \* its parameters
    out,            \* what it returned
    frame,          \* the locals of the calls in flight
    cache           \* the cache stores (memory cache, metrics_cache table)

vars == <<subscriptions, stripe, now, op, arg, out, frame, cache>>

(***************************************************************************)
(* Bounds of the model                                                     *)
(***************************************************************************)
MaxSubs == 2        \* subscriptions in a list
MaxItems == 2       \* items in a subscription
MaxCount == 3       \* largest interval_count
MaxCohort == 10     \* subscriptions in a signup cohort

(***************************************************************************)
(* Arithmetic helpers                                                      *)
(***************************************************************************)
RECURSIVE Gcd(_, _)
Gcd(a, b) == IF b = 0 THEN a ELSE Gcd(b, a % b)

RECURSIVE LcmUpTo(_)
LcmUpTo(n) == IF n <= 1 THEN 1 ELSE LET l == LcmUpTo(n - 1) IN (l * n) \div Gcd(l, n)

\* every interval_count of the model divides CountLcm
CountLcm == LcmUpTo(MaxCount)

Ok(v) == [exc |-> "none", value |-> v]
Raise(e) == [exc |-> e, value |-> 0]

Ties == {0, 1}

\* round(num / den, 0) to the nearest integer; on an exact half the float
\* error decides, tie = 1 rounding up
RoundRat(num, den, tie) ==
    LET q == num \div den
        r == num % den
    IN IF 2 * r < den THEN q
       ELSE IF 2 * r > den THEN q + 1
       ELSE q + tie


(***************************************************************************)
(* StripeService.calculate_mrr                                             *)
(***************************************************************************)
\* item.get("interval_count", 1), without "or 1": None stays None
interval_count_of_without_or(item) ==
    IF item.ic_kind = "int" THEN [kind |-> "int", n |-> item.interval_count]
    ELSE IF item.ic_kind = "null" THEN [kind |-> "null", n |-> 0]
    ELSE [kind |-> "int", n |-> 1]

\* item.get("interval_count", 1) or 1
interval_count_of(item) ==
    IF item.ic_kind = "int" /\ item.interval_count # 0
    THEN [kind |-> "int", n |-> item.interval_count]
    ELSE [kind |-> "int", n |-> 1]

\* x / interval_count on a float x = num / den
DivCount(num, k) ==
    IF k.kind # "int" THEN Raise("TypeError")
    ELSE IF k.n = 0 THEN Raise("ZeroDivisionError")
    ELSE Ok((num * CountLcm) \div k.n)

\* denominator of the unrounded MRR, in cents
MrrDen == 12 * CountLcm

\* mrr_item with the interval_count of weekly prices ignored
mrr_item_weekly_ignores_count(item) ==
    IF item.amount = 0 THEN Ok(0)
    ELSE LET k == interval_count_of(item) IN
         IF item.interval = "year" THEN DivCount(item.amount, k)
         ELSE IF item.interval = "month" THEN DivCount(12 * item.amount, k)
         ELSE IF item.interval = "day" THEN DivCount(12 * 30 * item.amount, k)
         ELSE IF item.interval = "week" THEN Ok(52 * item.amount * CountLcm)
         ELSE Ok(0)

\* what one item adds to mrr, as a numerator over MrrDen (cents)
mrr_item(item) ==
    IF item.amount = 0 THEN Ok(0)
    ELSE LET k == interval_count_of(item) IN
         IF item.interval = "year" THEN DivCount(item.amount, k)
         ELSE IF item.interval = "month" THEN DivCount(12 * item.amount, k)
         ELSE IF item.interval = "day" THEN DivCount(12 * 30 * item.amount, k)
         ELSE IF item.interval = "week" THEN DivCount(52 * item.amount, k)
         ELSE Ok(0)

\* all items of all subscriptions, in the order the two loops visit them
RECURSIVE all_items(_)
all_items(subs) ==
    IF subs = << >> THEN << >> ELSE Head(subs).items \o all_items(Tail(subs))

\* the loop "mrr += ..." over a sequence of items; the first exception ends it
RECURSIVE mrr_sum(_)
mrr_sum(items) ==
    IF items = << >> THEN Ok(0)
    ELSE LET t == mrr_item(Head(items)) IN
         IF t.exc # "none" THEN t
         ELSE LET rest == mrr_sum(Tail(items)) IN
              IF rest.exc # "none" THEN rest ELSE Ok(t.value + rest.value)

calculate_mrr(subs, tie) ==
    LET s == mrr_sum(all_items(subs)) IN
    IF s.exc # "none" THEN s ELSE Ok(RoundRat(s.value, MrrDen, tie))

\* the float additions calculate_mrr performs, in order: the operands of the
\* items that reach a "mrr +=" line
RECURSIVE mrr_path(_)
mrr_path(items) ==
    IF items = << >> THEN << >>
    ELSE LET it == Head(items) IN
         IF it.amount # 0 /\ it.interval \in {"year", "month", "day", "week"}
         THEN << <<it.amount, it.interval, interval_count_of(it).n>> >> \o mrr_path(Tail(items))
         ELSE mrr_path(Tail(items))

(***************************************************************************)
(* StripeService.calculate_acv                                             *)
(***************************************************************************)
\* what one item adds to annual_value, as a numerator over CountLcm (cents)
acv_item(item) ==
    LET k == interval_count_of(item) IN
    IF item.interval = "year" THEN DivCount(item.amount, k)
    ELSE IF item.interval = "month" THEN DivCount(item.amount * 12, k)
    ELSE IF item.interval = "day" THEN DivCount(item.amount * 365, k)
    ELSE Ok(0)

\* the loops "annual_value += ..." and "total_annual_value += annual_value"
RECURSIVE acv_sum(_)
acv_sum(items) ==
    IF items = << >> THEN Ok(0)
    ELSE LET t == acv_item(Head(items)) IN
         IF t.exc # "none" THEN t
         ELSE LET rest == acv_sum(Tail(items)) IN
              IF rest.exc # "none" THEN rest ELSE Ok(t.value + rest.value)

\* calculate_acv averaging over the items instead of the subscriptions
calculate_acv_per_item(subs, tie) ==
    IF subs = << >> THEN Ok(0)
    ELSE LET s == acv_sum(all_items(subs)) IN
         IF s.exc # "none" THEN s
         ELSE IF all_items(subs) = << >> THEN Raise("ZeroDivisionError")
         ELSE Ok(RoundRat(s.value, CountLcm * Len(all_items(subs)), tie))

calculate_acv(subs, tie) ==
    IF subs = << >> THEN Ok(0)
    ELSE LET s == acv_sum(all_items(subs)) IN
         IF s.exc # "none" THEN s
         ELSE Ok(RoundRat(s.value, CountLcm * Len(subs), tie))

\* the float operations calculate_acv performs: per subscription the non-zero
\* addends of annual_value (adding 0.0 leaves a double unchanged), and the
\* final division by len(subscriptions)
RECURSIVE acv_sub_path(_)
acv_sub_path(items) ==
    IF items = << >> THEN << >>
    ELSE LET it == Head(items) IN
         IF it.amount # 0 /\ it.interval \in {"year", "month", "day"}
         THEN << <<it.amount, it.interval, interval_count_of(it).n>> >> \o acv_sub_path(Tail(items))
         ELSE acv_sub_path(Tail(items))

RECURSIVE acv_subs_path(_)
acv_subs_path(subs) ==
    IF subs = << >> THEN << >>
    ELSE LET p == acv_sub_path(Head(subs).items) IN
         IF p = << >> THEN acv_subs_path(Tail(subs))
         ELSE <<p>> \o acv_subs_path(Tail(subs))

acv_path(subs) == <<Len(subs), acv_subs_path(subs)>>

(***************************************************************************)
(* StripeService.calculate_arpu                                            *)
(***************************************************************************)
\* set(s["customer"] for s in subs)
customers_of(subs) == {subs[i].customer : i \in 1..Len(subs)}

\* the customer denominator of calculate_arpu
arpu_customers(subs) == customers_of(subs)

calculate_arpu(subs, tie, tie2, tie3) ==
    IF subs = << >>
    THEN Ok([arpu_monthly |-> 0, arpu_annual |-> 0, total_customers |-> 0, total_mrr |-> 0])
    ELSE LET total_mrr == calculate_mrr(subs, tie)
             unique_customers == Cardinality(arpu_customers(subs))
         IN IF total_mrr.exc # "none" THEN total_mrr
            ELSE Ok([arpu_monthly |-> IF unique_customers > 0
                                      THEN RoundRat(total_mrr.value, unique_customers, tie2) ELSE 0,
                     arpu_annual |-> IF unique_customers > 0
                                     THEN RoundRat(12 * total_mrr.value, unique_customers, tie3) ELSE 0,
                     total_customers |-> unique_customers,
                     total_mrr |-> total_mrr.value])

(***************************************************************************)
(* MetricsCalculator._compute_towpilot_metrics: customer_metrics and       *)
(* revenue_metrics of the response, over the list all_subscriptions that   *)
(* get_active_subscriptions() returned                                     *)
(***************************************************************************)
\* any(item["amount"] > 0 for item in s["items"])
is_paying(s) == \E j \in 1..Len(s.items) : s.items[j].amount > 0

\* set(s["customer"] for s in paying_subscriptions)
paying_customers(subs) == {subs[i].customer : i \in {n \in 1..Len(subs) : is_paying(subs[n])}}

compute_towpilot_metrics(all_subscriptions, tie, tie2, tie3) ==
    LET towpilot_mrr == calculate_mrr(all_subscriptions, tie)
        towpilot_acv == calculate_acv(all_subscriptions, tie2)
        towpilot_customer_count == Cardinality(paying_customers(all_subscriptions))
    IN IF towpilot_mrr.exc # "none" THEN towpilot_mrr
       ELSE IF towpilot_acv.exc # "none" THEN towpilot_acv
       ELSE Ok([towpilot_customers |-> towpilot_customer_count,
                total_customers |-> Cardinality(customers_of(all_subscriptions)),
                mrr |-> towpilot_mrr.value,
                arr |-> towpilot_mrr.value * 12,
                acv |-> towpilot_acv.value,
                arpu_monthly |-> IF towpilot_customer_count > 0
                                 THEN RoundRat(towpilot_mrr.value, towpilot_customer_count, tie3)
                                 ELSE 0])

(***************************************************************************)
(* Inputs of the aggregator functions                                      *)
(***************************************************************************)
Amounts == {0, 18, 999}                 \* cents
Intervals == {"day", "week", "month", "year", "quarter", "None"}
Customers == {"cus_1", "cus_2"}

IntItems == [amount : Amounts, interval : Intervals, ic_kind : {"int"}, interval_count : 1..MaxCount]
DefaultItems == [amount : Amounts, interval : Intervals, ic_kind : {"absent", "null"}, interval_count : {0}]
Items == IntItems \cup DefaultItems
\* the $0 items added to a list: every interval, interval_count absent or given
ZeroItems == {it \in Items : it.amount = 0 /\ (it.ic_kind = "absent" \/ it.interval_count = MaxCount)}

Item(a, i, k) == [amount |-> a, interval |-> i, ic_kind |-> "int", interval_count |-> k]

\* the prices the multi-item lists are built from
Catalog == {Item(0, "month", 1), Item(999, "month", 2), Item(18, "year", 1)}

SeqsUpTo(S, n) == UNION {[1..m -> S] : m \in 0..n}

\* a subscription of a customer: more fields exist, the aggregators read these
Sub(c, its) == [customer |-> c, items |-> its]

\* the items of the subscriptions of several customers, paying or not
CustomerItems ==
    {<<Item(0, "month", 1)>>, <<Item(999, "month", 2)>>, <<Item(0, "year", 1), Item(18, "year", 1)>>}

InitAgg ==
    /\ \/ \* one subscription with one item, every item
          \E it \in Items : subscriptions = <<Sub("cus_1", <<it>>)>>
       \/ \* subscriptions of one customer with several catalog items
          \E n \in 0..MaxSubs :
             \E f \in [1..n -> SeqsUpTo(Catalog, MaxItems)] :
                subscriptions = [i \in 1..n |-> Sub("cus_1", f[i])]
       \/ \* subscriptions of several customers
          \E n \in 0..MaxSubs :
             \E f \in [1..n -> Customers \X CustomerItems] :
                subscriptions = [i \in 1..n |-> Sub(f[i][1], f[i][2])]
    /\ stripe = << >>
    /\ now = 0
    /\ op = "init"
    /\ arg = << >>
    /\ out = << >>
    /\ frame = << >>
    /\ cache = << >>

(***************************************************************************)
(* Calls of the aggregator functions on the list.  The functions keep no   *)
(* state between calls: a behaviour is one call on the list drawn.         *)
(***************************************************************************)
Returns(name, params, results) ==
    /\ op' = name
    /\ arg' = params
    /\ out' \in results
    /\ UNCHANGED <<subscriptions, stripe, now, frame, cache>>

CalculateMrr ==
    /\ op = "init"
    /\ Returns("calculate_mrr", << >>, {calculate_mrr(subscriptions, tie) : tie \in Ties})

CalculateAcv ==
    /\ op = "init"
    /\ Returns("calculate_acv", << >>, {calculate_acv(subscriptions, tie) : tie \in Ties})

CalculateArpu ==
    /\ op = "init"
    /\ Returns("calculate_arpu", << >>,
            {calculate_arpu(subscriptions, tie, tie2, tie3) : tie \in Ties, tie2 \in Ties, tie3 \in Ties})

\* _compute_towpilot_metrics and calculate_arpu on the same fetched list
ComputeTowpilotMetrics ==
    /\ op = "init"
    /\ Returns("compute_towpilot_metrics", << >>,
            {[metrics |-> compute_towpilot_metrics(subscriptions, tie, tie2, tie3),
              arpu |-> calculate_arpu(subscriptions, tie, tie3, tie4)] :
                tie \in Ties, tie2 \in Ties, tie3 \in Ties, tie4 \in Ties})

(***************************************************************************)
(* Two calls on related lists, as the regression tests make them.  The     *)
(* second list is kept in arg.b; out holds the result of each call.        *)
(***************************************************************************)
SwapFirstTwo(p) == IF Len(p) < 2 THEN p ELSE <<p[2], p[1]>> \o SubSeq(p, 3, Len(p))

\* the two sums 0.0 + t1 + t2 + ... are the same double: the same addends in
\* the same order, float addition being commutative in its first two
same_double(pa, pb) == pa = pb \/ pa = SwapFirstTwo(pb)

\* the rounding directions two float computations can take
PairTies(same) == {t \in Ties \X Ties : same => t[1] = t[2]}

IsPowerOfTwo(k) == k \in {1, 2, 4, 8, 16}

\* a list of one subscription with one priced item billed every 1 interval
IsBasePrice(subs) ==
    /\ Len(subs) = 1
    /\ Len(subs[1].items) = 1
    /\ subs[1].items[1].amount > 0
    /\ subs[1].items[1].ic_kind = "int"
    /\ subs[1].items[1].interval_count = 1
    /\ subs[1].items[1].interval \in {"day", "week", "month", "year"}

\* the same product priced k * A every k intervals
scaled(subs, k) ==
    LET it == subs[1].items[1] IN
    <<[customer |-> subs[1].customer,
       items |-> <<[it EXCEPT !.amount = k * it.amount, !.interval_count = k]>>]>>

\* test_monthly_quarterly, test_yearly_biennial: calculate_mrr of a price and
\* of its k-interval equivalent.  (k * a) / k is the double a when k is a
\* power of two, scaling by which is exact.
ScaledPrice ==
    /\ op = "init"
    /\ IsBasePrice(subscriptions)
    /\ \E k \in 1..MaxCount :
         LET b == scaled(subscriptions, k) IN
         Returns("scaled_price", [b |-> b, k |-> k],
                 {[a |-> calculate_mrr(subscriptions, t[1]), b |-> calculate_mrr(b, t[2])] :
                     t \in PairTies(IsPowerOfTwo(k))})

HasDefaultCount(subs) ==
    \E n \in 1..Len(all_items(subs)) : all_items(subs)[n].ic_kind # "int"

\* the same list with interval_count = 1 written where it is absent or None
with_count_one(subs) ==
    [i \in 1..Len(subs) |->
        [customer |-> subs[i].customer,
         items |-> [j \in 1..Len(subs[i].items) |->
                      LET it == subs[i].items[j] IN
                      IF it.ic_kind # "int"
                      THEN [it EXCEPT !.ic_kind = "int", !.interval_count = 1]
                      ELSE it]]]

\* both calculators on a list a and on a second list b
BothOn(a, b, name) ==
    LET mrr_a == [t \in Ties |-> calculate_mrr(a, t)]
        mrr_b == [t \in Ties |-> calculate_mrr(b, t)]
        acv_a == [t \in Ties |-> calculate_acv(a, t)]
        acv_b == [t \in Ties |-> calculate_acv(b, t)]
    IN Returns(name, [b |-> b],
               {[mrr_a |-> mrr_a[tm[1]], mrr_b |-> mrr_b[tm[2]],
                 acv_a |-> acv_a[ta[1]], acv_b |-> acv_b[ta[2]]] :
                   tm \in PairTies(same_double(mrr_path(all_items(a)), mrr_path(all_items(b)))),
                   ta \in PairTies(acv_path(a) = acv_path(b))})

\* test_missing_interval_count_defaults_to_one, test_null_interval_count_defaults_to_one
DefaultCount ==
    /\ op = "init"
    /\ HasDefaultCount(subscriptions)
    /\ BothOn(subscriptions, with_count_one(subscriptions), "default_count")

\* test_zero_amount_subscriptions_ignored: a $0 item added to a subscription
AddZeroItem ==
    /\ op = "init"
    /\ \E i \in 1..Len(subscriptions), z \in ZeroItems :
         BothOn(subscriptions,
                [subscriptions EXCEPT ![i].items = Append(subscriptions[i].items, z)],
                "add_zero_item")

Perms(n) == {f \in [1..n -> 1..n] : \A i, j \in 1..n : f[i] = f[j] => i = j}

\* the subscriptions in another order
Reorder ==
    /\ op = "init"
    /\ \E f \in Perms(Len(subscriptions)) :
         BothOn(subscriptions, [i \in 1..Len(subscriptions) |-> subscriptions[f[i]]], "reorder")

\* subscription i replaced by one single-item subscription of the same
\* customer per item
split(subs, i) ==
    SubSeq(subs, 1, i - 1)
    \o [j \in 1..Len(subs[i].items) |-> [customer |-> subs[i].customer, items |-> <<subs[i].items[j]>>]]
    \o SubSeq(subs, i + 1, Len(subs))

\* TestMultiItemSubscriptionMRR: a multi-item subscription and its split
SplitSubscription ==
    /\ op = "init"
    /\ \E i \in 1..Len(subscriptions) :
         /\ Len(subscriptions[i].items) >= 2
         /\ BothOn(subscriptions, split(subscriptions, i), "split_subscription")

NextAgg ==
    \/ CalculateMrr
    \/ CalculateAcv
    \/ CalculateArpu
    \/ ComputeTowpilotMetrics
    \/ ScaledPrice
    \/ DefaultCount
    \/ AddZeroItem
    \/ Reorder
    \/ SplitSubscription

SpecAgg == InitAgg /\ [][NextAgg]_vars

(***************************************************************************)
(* The provider's subscriptions and the two fetches                        *)
(***************************************************************************)
\* stripe.Subscription.list(status = ...) exhausted by _paginate_stripe_list;
\* without a status every subscription, as the fetches' docstrings state
stripe_list(objects, status) ==
    SelectSeq(objects, LAMBDA sub : status = "all" \/ sub.status = status)

\* process_subscription of get_active_subscriptions
process_active(sub) ==
    [id |-> sub.id, customer |-> sub.customer, status |-> sub.status,
     items |-> [j \in 1..Len(sub.items) |->
                  LET price == sub.items[j] IN
                  [amount |-> price.unit_amount,
                   interval |-> IF price.recurring THEN price.interval ELSE "None",
                   ic_kind |-> "int",
                   interval_count |-> IF price.recurring THEN price.interval_count ELSE 1]]]

get_active_subscriptions(objects) ==
    LET page == stripe_list(objects, "active") IN
    [i \in 1..Len(page) |-> process_active(page[i])]

\* process_subscription of _get_all_subscriptions_with_items: the items carry
\* no interval_count key
process_with_items(sub) ==
    [id |-> sub.id, customer |-> sub.customer, status |-> sub.status,
     canceled_at |-> sub.canceled_at, created |-> sub.created,
     items |-> [j \in 1..Len(sub.items) |->
                  LET price == sub.items[j] IN
                  [amount |-> price.unit_amount,
                   interval |-> IF price.recurring THEN price.interval ELSE "None",
                   ic_kind |-> "absent",
                   interval_count |-> 0]]]

get_all_subscriptions_with_items(objects) ==
    LET page == stripe_list(objects, "all") IN
    [i \in 1..Len(page) |-> process_with_items(page[i])]

(***************************************************************************)
(* StripeService.calculate_churn_rate                                      *)
(***************************************************************************)
\* a timestamp that is neither None nor 0
Truthy(ts) == ts # 0

\* subscriptions active at the start of the period, ignoring cancellation
active_at_start_ignores_cancel(all_subscriptions, start_timestamp) ==
    SelectSeq(all_subscriptions, LAMBDA sub : sub.created < start_timestamp)

active_at_start(all_subscriptions, start_timestamp) ==
    SelectSeq(all_subscriptions,
              LAMBDA sub : /\ sub.created < start_timestamp
                           /\ \/ sub.status = "active"
                              \/ Truthy(sub.canceled_at) /\ sub.canceled_at >= start_timestamp)

churned_subscriptions(all_subscriptions, start_timestamp, end_timestamp) ==
    SelectSeq(all_subscriptions,
              LAMBDA sub : /\ Truthy(sub.canceled_at)
                           /\ start_timestamp <= sub.canceled_at
                           /\ sub.canceled_at < end_timestamp)

ids_of(subs) == {subs[i].id : i \in 1..Len(subs)}

\* the rounding directions of calculate_mrr on two lists
MrrTies(a, b) == PairTies(same_double(mrr_path(all_items(a)), mrr_path(all_items(b))))

\* every return value of calculate_churn_rate(months) at the clock value
\* clock; rates in hundredths of a percent, money in cents
calculate_churn_rate(objects, clock, months) ==
    LET end_timestamp == clock
        start_timestamp == clock - months * 30
        all_subscriptions == get_all_subscriptions_with_items(objects)
        active_subscriptions == SelectSeq(all_subscriptions, LAMBDA sub : sub.status = "active")
        at_start == active_at_start(all_subscriptions, start_timestamp)
        churned == churned_subscriptions(all_subscriptions, start_timestamp, end_timestamp)
        unique_customers_at_start == Cardinality(customers_of(at_start))
        unique_churned_customers == Cardinality(customers_of(churned))
    IN {LET current_mrr == calculate_mrr(active_subscriptions, t[1])
            churned_mrr == calculate_mrr(churned, t[2])
            start_mrr == current_mrr.value + churned_mrr.value
        IN IF current_mrr.exc # "none" THEN current_mrr
           ELSE IF churned_mrr.exc # "none" THEN churned_mrr
           ELSE Ok([customer_churn_rate |->
                        IF unique_customers_at_start > 0
                        THEN RoundRat(unique_churned_customers * 100 * 100, unique_customers_at_start, t2)
                        ELSE 0,
                    revenue_churn_rate |->
                        IF start_mrr > 0 THEN RoundRat(churned_mrr.value * 100 * 100, start_mrr, t3) ELSE 0,
                    period_months |-> months,
                    customers_at_start |-> unique_customers_at_start,
                    customers_churned |-> unique_churned_customers,
                    mrr_at_start |-> start_mrr,
                    mrr_churned |-> churned_mrr.value,
                    current_mrr |-> current_mrr.value,
                    \* locals at the return, not part of the Dict
                    active_at_start |-> ids_of(at_start),
                    churned_subscriptions |-> ids_of(churned)]) :
        t \in MrrTies(active_subscriptions, churned), t2 \in Ties, t3 \in Ties}

(***************************************************************************)
(* StripeService.calculate_expansion_metrics                               *)
(***************************************************************************)
\* every return value of calculate_expansion_metrics() at the clock value
\* clock; percentages in tenths of a percent, money in cents
calculate_expansion_metrics(objects, clock) ==
    LET start_timestamp == clock - 365
        all_subscriptions == get_all_subscriptions_with_items(objects)
        at_start == active_at_start(all_subscriptions, start_timestamp)
        still_active == SelectSeq(at_start, LAMBDA sub : sub.status = "active")
        churned_subs == SelectSeq(at_start,
                                  LAMBDA sub : Truthy(sub.canceled_at) /\ sub.canceled_at >= start_timestamp)
    IN {LET start_mrr == calculate_mrr(at_start, t[1]).value
            current_mrr == calculate_mrr(still_active, t[2]).value
            churned_mrr == calculate_mrr(churned_subs, t[3]).value
        IN IF calculate_mrr(at_start, t[1]).exc # "none" THEN calculate_mrr(at_start, t[1])
           ELSE Ok([gross_retention |->
                        IF start_mrr > 0 THEN RoundRat((start_mrr - churned_mrr) * 100 * 10, start_mrr, t2) ELSE 0,
                    net_retention |->
                        IF start_mrr > 0 THEN RoundRat(current_mrr * 100 * 10, start_mrr, t3) ELSE 0,
                    expansion_revenue_pct |->
                        IF start_mrr > 0
                        THEN RoundRat((current_mrr - (start_mrr - churned_mrr)) * 100 * 10, start_mrr, t4)
                        ELSE 0,
                    mrr_at_start |-> start_mrr,
                    current_mrr |-> current_mrr,
                    churned_mrr |-> churned_mrr]) :
        t \in {u \in Ties \X Ties \X Ties :
                  /\ <<u[1], u[2]>> \in MrrTies(at_start, still_active)
                  /\ <<u[1], u[3]>> \in MrrTies(at_start, churned_subs)
                  /\ <<u[2], u[3]>> \in MrrTies(still_active, churned_subs)},
        t2 \in Ties, t3 \in Ties, t4 \in Ties}

(***************************************************************************)
(* The provider's data                                                     *)
(***************************************************************************)
Price(a, i, k) == [unit_amount |-> a, recurring |-> TRUE, interval |-> i, interval_count |-> k]

\* the prices subscribed to: $29.97 every MaxCount months, $9.99 a month
Prices == {Price(999 * MaxCount, "month", MaxCount), Price(999, "month", 1)}

Life(s, c, x) == [status |-> s, created |-> c, canceled_at |-> x]

\* the clock of the analysis, in days
Today == 400

\* the life cycles of a subscription: status, created, canceled_at (0: None)
Lifecycles ==
    {Life("active", 20, 0),         \* long-standing
     Life("active", 380, 0),        \* signed up last month
     Life("active", 370, 0),        \* signed up 30 days ago to the second
     Life("active", 20, 390),       \* active, cancellation recorded
     Life("canceled", 20, 30),      \* canceled more than a year ago
     Life("canceled", 300, 340),    \* canceled two months ago
     Life("canceled", 300, 370),    \* canceled 30 days ago to the second
     Life("canceled", 380, 390),    \* signed up and canceled last month
     Life("canceled", 20, 400)}     \* canceled this second

\* n subscriptions of one item each, numbered in list order
provider_subscriptions(n, f) ==
    [i \in 1..n |-> [id |-> i, customer |-> f[i][1], status |-> f[i][2].status,
                     created |-> f[i][2].created, canceled_at |-> f[i][2].canceled_at,
                     items |-> <<f[i][3]>>]]

InitChurn ==
    /\ \E n \in 0..MaxSubs :
         \E f \in [1..n -> Customers \X Lifecycles \X Prices] :
            stripe = provider_subscriptions(n, f)
    /\ now = Today
    /\ subscriptions = << >>
    /\ op = "init"
    /\ arg = << >>
    /\ out = << >>
    /\ frame = << >>
    /\ cache = << >>

\* GET /stripe/churn?months=
CalculateChurnRate ==
    /\ op = "init"
    /\ \E months \in {1, 3} :
         /\ op' = "calculate_churn_rate"
         /\ arg' = [months |-> months]
         /\ out' \in calculate_churn_rate(stripe, now, months)
    /\ UNCHANGED <<subscriptions, stripe, now, frame, cache>>

\* GET /stripe/expansion
CalculateExpansionMetrics ==
    /\ op = "init"
    /\ op' = "calculate_expansion_metrics"
    /\ arg' = << >>
    /\ out' \in calculate_expansion_metrics(stripe, now)
    /\ UNCHANGED <<subscriptions, stripe, now, frame, cache>>

\* _compute_towpilot_metrics: get_active_subscriptions, then the aggregators
FetchTowpilotMetrics ==
    /\ op = "init"
    /\ op' = "fetch_towpilot_metrics"
    /\ arg' = << >>
    /\ out' \in {compute_towpilot_metrics(get_active_subscriptions(stripe), tie, tie2, tie3) :
                    tie \in Ties, tie2 \in Ties, tie3 \in Ties}
    /\ UNCHANGED <<subscriptions, stripe, now, frame, cache>>

NextChurn ==
    \/ CalculateChurnRate
    \/ CalculateExpansionMetrics
    \/ FetchTowpilotMetrics

SpecChurn == InitChurn /\ [][NextChurn]_vars

(***************************************************************************)
(* RetentionService.calculate_cohort_retention                             *)
(***************************************************************************)
\* the retention horizons, in days
Horizons == <<30, 60, 90, 180, 365>>

HorizonSet == {Horizons[i] : i \in 1..Len(Horizons)}

\* days_active without the cancellation branch
days_active_ignores_cancel(sub, analysis_timestamp) == analysis_timestamp - sub.created

\* days_active of a subscription at the analysis time; timestamps are in
\* days, so the division by 86400 is already made
days_active(sub, analysis_timestamp) ==
    IF Truthy(sub.canceled_at) THEN sub.canceled_at - sub.created
    ELSE analysis_timestamp - sub.created

\* the subscriptions active for exactly h days or less
retained_at_most(cohort, analysis_timestamp, h) ==
    {i \in 1..Len(cohort) : days_active(cohort[i], analysis_timestamp) <= h}

\* the subscriptions of the cohort counted at horizon h
retained_at(cohort, analysis_timestamp, h) ==
    {i \in 1..Len(cohort) : days_active(cohort[i], analysis_timestamp) >= h}

\* the rounding directions of the five percentages: equal counts give the
\* same double
HorizonTies(retained) ==
    {t \in [HorizonSet -> Ties] :
        \A g, h \in HorizonSet : retained[g] = retained[h] => t[g] = t[h]}

\* every return value of calculate_cohort_retention(cohort, analysis_date);
\* retained[h] is retained_<h>d, retention_pct[h] is retention_<h>d_pct in
\* tenths of a percent
calculate_cohort_retention(cohort, analysis_timestamp) ==
    LET total == Len(cohort)
        retained == [h \in HorizonSet |-> Cardinality(retained_at(cohort, analysis_timestamp, h))]
    IN IF total = 0
       THEN {Ok([total |-> 0,
                 retained |-> [h \in HorizonSet |-> 0],
                 retention_pct |-> [h \in HorizonSet |-> 0]])}
       ELSE {Ok([total |-> total,
                 retained |-> retained,
                 retention_pct |-> [h \in HorizonSet |-> RoundRat(retained[h] * 100 * 10, total, t[h])]]) :
             t \in HorizonTies(retained)}

(***************************************************************************)
(* RetentionService.calculate_early_churn                                  *)
(***************************************************************************)
\* eligibility with a strict comparison
eligible_subs_strictly_older(subs, now_timestamp, early_period_days) ==
    SelectSeq(subs, LAMBDA sub : sub.created < now_timestamp - early_period_days)

eligible_subs(subs, now_timestamp, early_period_days) ==
    SelectSeq(subs, LAMBDA sub : sub.created <= now_timestamp - early_period_days)

\* the subscriptions counted in churned_early
early_churned(eligible, early_period_days) ==
    SelectSeq(eligible, LAMBDA sub : /\ Truthy(sub.canceled_at)
                                     /\ sub.canceled_at - sub.created <= early_period_days)

\* every return value of calculate_early_churn(subscriptions,
\* early_period_days) at the clock value clock; rates in tenths of a percent
calculate_early_churn(subs, clock, early_period_days) ==
    LET eligible == eligible_subs(subs, clock, early_period_days)
        churned_early == Len(early_churned(eligible, early_period_days))
        total == Len(eligible)
        retained == total - churned_early
    IN IF eligible = << >>
       THEN {Ok([period_days |-> early_period_days,
                 customers_analyzed |-> 0,
                 churned_early |-> 0,
                 churn_rate |-> 0,
                 retained_past_early |-> 0,
                 retention_rate |-> 0,
                 \* locals at the return, not part of the dict
                 eligible_ids |-> {},
                 churned_ids |-> {}])}
       ELSE {Ok([period_days |-> early_period_days,
                 customers_analyzed |-> total,
                 churned_early |-> churned_early,
                 churn_rate |-> IF total > 0 THEN RoundRat(churned_early * 100 * 10, total, t) ELSE 0,
                 retained_past_early |-> retained,
                 retention_rate |-> IF total > 0 THEN RoundRat(retained * 100 * 10, total, t2) ELSE 0,
                 eligible_ids |-> ids_of(eligible),
                 churned_ids |-> ids_of(early_churned(eligible, early_period_days))]) :
             t \in Ties, t2 \in Ties}

(***************************************************************************)
(* RetentionService.calculate_steady_state_churn                           *)
(***************************************************************************)
\* the subscriptions that completed the early period without churning in it
survivors_of(subs, now_timestamp, early_period_days) ==
    SelectSeq(subs, LAMBDA sub :
        /\ ~(sub.created > now_timestamp - early_period_days)
        /\ ~(Truthy(sub.canceled_at) /\ sub.canceled_at - sub.created <= early_period_days))

\* the survivors counted in churned_in_period, without the lookback test
steady_churned_ignores_lookback(survivors, lookback_start, early_period_days) ==
    SelectSeq(survivors, LAMBDA sub : /\ Truthy(sub.canceled_at)
                                      /\ sub.canceled_at - sub.created > early_period_days)

\* the survivors counted in churned_in_period
steady_churned(survivors, lookback_start, early_period_days) ==
    SelectSeq(survivors, LAMBDA sub : /\ Truthy(sub.canceled_at)
                                      /\ sub.canceled_at >= lookback_start
                                      /\ sub.canceled_at - sub.created > early_period_days)

\* (1 - (1 - monthly_churn_rate / 100) ** 12) * 100 rounded to 1 decimal,
\* kept as the monthly fraction c / d it compounds, in lowest terms
annual_churn_rate(c, d) ==
    [periods |-> 12, monthly |-> <<c \div Gcd(c, d), d \div Gcd(c, d)>>]

\* every return value of calculate_steady_state_churn(subscriptions,
\* early_period_days, lookback_months) at the clock value clock;
\* monthly_rate in hundredths of a percent, average_lifespan_months in
\* tenths of a month
calculate_steady_state_churn(subs, clock, early_period_days, lookback_months) ==
    LET lookback_start == clock - lookback_months * 30
        survivors == survivors_of(subs, clock, early_period_days)
        churned == steady_churned(survivors, lookback_start, early_period_days)
        churned_in_period == Len(churned)
        months_at_risk == Len(survivors) * lookback_months
    IN IF survivors = << >>
       THEN {Ok([monthly_rate |-> 0,
                 annual_rate |-> annual_churn_rate(0, 1),
                 customers_analyzed |-> 0,
                 churned_in_period |-> 0,
                 average_lifespan_months |-> 0,
                 lookback_months |-> lookback_months,
                 \* locals at the return, not part of the dict
                 survivor_ids |-> {},
                 churned_ids |-> {}])}
       ELSE IF months_at_risk = 0
       THEN {Raise("ZeroDivisionError")}
       ELSE {Ok([monthly_rate |-> RoundRat(churned_in_period * 100 * 100, months_at_risk, t),
                 annual_rate |-> annual_churn_rate(churned_in_period, months_at_risk),
                 customers_analyzed |-> Len(survivors),
                 churned_in_period |-> churned_in_period,
                 average_lifespan_months |->
                     IF churned_in_period > 0
                     THEN RoundRat(months_at_risk * 10, churned_in_period, t2)
                     ELSE 120 * 10,
                 lookback_months |-> lookback_months,
                 survivor_ids |-> ids_of(survivors),
                 churned_ids |-> ids_of(churned)]) :
             t \in Ties, t2 \in Ties}

(***************************************************************************)
(* Subscription life cycles for the retention analysis                     *)
(***************************************************************************)
\* status, created, canceled_at (0: None), the clock being Today
RetentionLives ==
    {Life("active", 20, 0),         \* 380 days old
     Life("active", 35, 0),         \* 365 days old to the second
     Life("active", 340, 0),        \* 60 days old to the second
     Life("active", 390, 0),        \* 10 days old
     Life("past_due", 300, 0),      \* payment overdue, not canceled
     Life("active", 20, 380),       \* active, cancellation scheduled 20 days ago
     Life("canceled", 20, 40),      \* canceled after 20 days, long ago
     Life("canceled", 20, 80),      \* canceled after 60 days to the second
     Life("canceled", 20, 120),     \* canceled after 100 days, long ago
     Life("canceled", 200, 380),    \* canceled after 180 days, 20 days ago
     Life("canceled", 330, 391),    \* canceled after 61 days, 9 days ago
     Life("canceled", 385, 395)}    \* signed up and canceled this month

\* the cohort of the retention example: still active, canceled within 40
\* days of signup, canceled at day 100
CohortLives == <<Life("active", 20, 0), Life("canceled", 20, 40), Life("canceled", 20, 120)>>

\* the list get_all_subscriptions_with_lifecycle returns, without the
\* fields the retention computations do not read (customer, mrr)
lifecycle_subscriptions(lives) ==
    [i \in 1..Len(lives) |-> [id |-> i, status |-> lives[i].status,
                              created |-> lives[i].created, canceled_at |-> lives[i].canceled_at]]

\* n copies of x
Repeat(x, n) == [i \in 1..n |-> x]

InitRetention ==
    /\ \/ \E n \in 0..MaxSubs :
            \E f \in [1..n -> RetentionLives] :
                subscriptions = lifecycle_subscriptions(f)
       \/ \E a, b, c \in 0..MaxCohort :
            /\ a + b + c <= MaxCohort
            /\ a + b + c > MaxSubs
            /\ subscriptions = lifecycle_subscriptions(
                   Repeat(CohortLives[1], a) \o Repeat(CohortLives[2], b) \o Repeat(CohortLives[3], c))
    /\ stripe = << >>
    /\ now = Today
    /\ op = "init"
    /\ arg = << >>
    /\ out = << >>
    /\ frame = << >>
    /\ cache = << >>

\* the windows asked for: early_period_days, lookback_months
EarlyPeriods == {30, 60}

LookbackMonths == {0, 1, 6}

\* get_cohort_retention_data: calculate_cohort_retention(cohort)
CalculateCohortRetention ==
    /\ op = "init"
    /\ op' = "calculate_cohort_retention"
    /\ arg' = << >>
    /\ out' \in calculate_cohort_retention(subscriptions, now)
    /\ UNCHANGED <<subscriptions, stripe, now, frame, cache>>

\* GET /attrition/early-churn?period_days=
CalculateEarlyChurn ==
    /\ op = "init"
    /\ \E period_days \in EarlyPeriods :
         /\ op' = "calculate_early_churn"
         /\ arg' = [early_period_days |-> period_days]
         /\ out' \in calculate_early_churn(subscriptions, now, period_days)
    /\ UNCHANGED <<subscriptions, stripe, now, frame, cache>>

\* GET /attrition/steady-state-churn?early_period_days=&lookback_months=
CalculateSteadyStateChurn ==
    /\ op = "init"
    /\ \E early_period_days \in EarlyPeriods, lookback_months \in LookbackMonths :
         /\ op' = "calculate_steady_state_churn"
         /\ arg' = [early_period_days |-> early_period_days, lookback_months |-> lookback_months]
         /\ out' \in calculate_steady_state_churn(subscriptions, now, early_period_days, lookback_months)
    /\ UNCHANGED <<subscriptions, stripe, now, frame, cache>>

\* get_attrition_summary: both computations on one list, up to the two
\* results; an exception of either leaves the call
get_attrition_summary(subs, clock, early_period_days, lookback_months) ==
    {IF e.exc # "none" THEN e
     ELSE IF s.exc # "none" THEN s
     ELSE Ok([early_churn |-> e.value, steady_state_churn |-> s.value]) :
       e \in calculate_early_churn(subs, clock, early_period_days),
       s \in calculate_steady_state_churn(subs, clock, early_period_days, lookback_months)}

GetAttritionSummary ==
    /\ op = "init"
    /\ \E early_period_days \in EarlyPeriods, lookback_months \in LookbackMonths :
         /\ op' = "get_attrition_summary"
         /\ arg' = [early_period_days |-> early_period_days, lookback_months |-> lookback_months]
         /\ out' \in get_attrition_summary(subscriptions, now, early_period_days, lookback_months)
    /\ UNCHANGED <<subscriptions, stripe, now, frame, cache>>

NextRetention ==
    \/ CalculateCohortRetention
    \/ CalculateEarlyChurn
    \/ CalculateSteadyStateChurn
    \/ GetAttritionSummary

SpecRetention == InitRetention /\ [][NextRetention]_vars

(***************************************************************************)
(* StripeService.get_upcoming_billings                                     *)
(***************************************************************************)
\* "tow" in tags.lower()
HasTow(tags) == tags \in {"TowPilot", "tow-fleet"}

\* the cohort process_subscription finds for a customer; a failed
\* stripe.Customer.retrieve leaves "unknown"
cohort_of(customer) ==
    IF ~customer.found THEN "unknown"
    ELSE IF customer.tags # "" /\ HasTow(customer.tags) THEN "towpilot"
    ELSE "eqho"

\* what one item adds to monthly_amount, as a numerator over MrrDen (cents)
billing_item(price) ==
    LET amount == price.unit_amount
        interval == IF price.recurring THEN price.interval ELSE "None"
        interval_count == IF price.recurring THEN price.interval_count ELSE 1
    IN IF interval = "month" THEN (12 * amount * CountLcm) \div interval_count
       ELSE IF interval = "year" THEN (amount * CountLcm) \div interval_count
       ELSE IF interval = "week" THEN (52 * amount * CountLcm) \div interval_count
       ELSE 0

RECURSIVE monthly_amount(_)
monthly_amount(items) ==
    IF items = << >> THEN 0 ELSE billing_item(Head(items)) + monthly_amount(Tail(items))

\* process_subscription of get_upcoming_billings; a datetime is the day it
\* falls in
process_billing(sub, tie) ==
    [id |-> sub.id,
     customer_id |-> sub.customer,
     cohort |-> cohort_of(sub.customer_object),
     amount |-> RoundRat(monthly_amount(sub.items), MrrDen, tie),
     billing_date |-> sub.current_period_end]

\* the rounding directions of the amounts: equal items give the same double
BillingTies(page) ==
    {t \in [1..Len(page) -> Ties] :
        \A i, j \in 1..Len(page) : page[i].items = page[j].items => t[i] = t[j]}

billing_info(sub) ==
    [subscription_id |-> sub.id, customer_id |-> sub.customer_id, cohort |-> sub.cohort,
     amount |-> sub.amount, billing_date |-> sub.billing_date]

RECURSIVE total_amount(_)
total_amount(subs) == IF subs = << >> THEN 0 ELSE Head(subs).amount + total_amount(Tail(subs))

\* details[:20]
first_20(details) == SubSeq(details, 1, IF Len(details) < 20 THEN Len(details) ELSE 20)

\* every return value of get_upcoming_billings(days) at the clock value
\* clock; amounts in cents, details as billing_info records
get_upcoming_billings(objects, clock, days) ==
    LET page == stripe_list(objects, "active")
        today_start == clock
        tomorrow_start == today_start + 1
        week_end == today_start + 7
        month_end == today_start + days
        is_today(sub) == today_start <= sub.billing_date /\ sub.billing_date < tomorrow_start
        is_tomorrow(sub) ==
            /\ ~is_today(sub)
            /\ tomorrow_start <= sub.billing_date /\ sub.billing_date < tomorrow_start + 1
        is_rest_of_week(sub) ==
            /\ ~is_today(sub) /\ ~is_tomorrow(sub)
            /\ tomorrow_start + 1 <= sub.billing_date /\ sub.billing_date < week_end
        is_rest_of_month(sub) ==
            /\ ~is_today(sub) /\ ~is_tomorrow(sub) /\ ~is_rest_of_week(sub)
            /\ week_end <= sub.billing_date /\ sub.billing_date < month_end
        in_week(sub) == today_start <= sub.billing_date /\ sub.billing_date < week_end
        in_month(sub) == today_start <= sub.billing_date /\ sub.billing_date < month_end
    IN {LET subs == [i \in 1..Len(page) |-> process_billing(page[i], t[i])]
            infos(test(_)) == LET kept == SelectSeq(subs, test)
                              IN [i \in 1..Len(kept) |-> billing_info(kept[i])]
            today_billings == infos(is_today)
            tomorrow_billings == infos(is_tomorrow)
            week_billings == infos(is_rest_of_week)
            month_billings == infos(is_rest_of_month)
            week_all_billings == today_billings \o tomorrow_billings \o week_billings
            month_all_billings == week_all_billings \o month_billings
            cohort_totals(cohort) ==
                LET mine == SelectSeq(subs, LAMBDA sub : sub.cohort = cohort)
                IN [today |-> total_amount(SelectSeq(mine, is_today)),
                    tomorrow |-> total_amount(SelectSeq(mine, is_tomorrow)),
                    week |-> total_amount(SelectSeq(mine, in_week)),
                    month |-> total_amount(SelectSeq(mine, in_month))]
        IN Ok([today |-> [amount |-> total_amount(SelectSeq(subs, is_today)),
                          count |-> Len(today_billings),
                          details |-> today_billings],
               tomorrow |-> [amount |-> total_amount(SelectSeq(subs, is_tomorrow)),
                             count |-> Len(tomorrow_billings),
                             details |-> tomorrow_billings],
               this_week |-> [amount |-> total_amount(SelectSeq(subs, in_week)),
                              count |-> Len(week_all_billings),
                              details |-> first_20(week_all_billings)],
               this_month |-> [amount |-> total_amount(SelectSeq(subs, in_month)),
                               count |-> Len(month_all_billings),
                               details |-> first_20(month_all_billings)],
               by_cohort |-> [towpilot |-> cohort_totals("towpilot"),
                              eqho |-> cohort_totals("eqho")]]) :
        t \in BillingTies(page)}

(***************************************************************************)
(* The provider's data for the billing calendar                            *)
(***************************************************************************)
Customer(found, tags) == [found |-> found, tags |-> tags]

\* customer, its stripe.Customer object, subscription status, price
Account(c, o, s, p) == [customer |-> c, customer_object |-> o, status |-> s, price |-> p]

Accounts ==
    {Account("cus_1", Customer(TRUE, "TowPilot"), "active", Price(999, "month", 1)),
     Account("cus_2", Customer(TRUE, ""), "active", Price(999 * MaxCount, "month", MaxCount)),
     Account("cus_2", Customer(TRUE, ""), "active", Price(18, "year", 1)),
     Account("cus_1", Customer(TRUE, "TowPilot"), "active", Price(100, "day", 1)),
     Account("cus_3", Customer(FALSE, ""), "active", Price(999, "week", 2)),
     Account("cus_1", Customer(TRUE, "TowPilot"), "canceled", Price(999, "month", 1))}

\* current_period_end: yesterday, today, tomorrow, in 2, 7 and 30 days
BillingDays == {Today - 1, Today, Today + 1, Today + 2, Today + 7, Today + 30}

\* the days parameter: the ends of the range the endpoint accepts, a week,
\* the default
BillingWindows == {1, 7, 30, 90}

billing_subscriptions(n, f) ==
    [i \in 1..n |-> [id |-> i, customer |-> f[i][1].customer,
                     customer_object |-> f[i][1].customer_object,
                     status |-> f[i][1].status,
                     current_period_end |-> f[i][2],
                     items |-> <<f[i][1].price>>]]

InitBilling ==
    /\ \E n \in 0..MaxSubs :
         \E f \in [1..n -> Accounts \X BillingDays] :
            stripe = billing_subscriptions(n, f)
    /\ now = Today
    /\ subscriptions = << >>
    /\ op = "init"
    /\ arg = << >>
    /\ out = << >>
    /\ frame = << >>
    /\ cache = << >>

\* GET /cashflow/upcoming-billings?days=
GetUpcomingBillings ==
    /\ op = "init"
    /\ \E days \in BillingWindows :
         /\ op' = "get_upcoming_billings"
         /\ arg' = [days |-> days]
         /\ out' \in get_upcoming_billings(stripe, now, days)
    /\ UNCHANGED <<subscriptions, stripe, now, frame, cache>>

NextBilling == GetUpcomingBillings

SpecBilling == InitBilling /\ [][NextBilling]_vars

(***************************************************************************)
(* api/v1/revenue_projections.py: the calendar                             *)
(***************************************************************************)
\* A date of the projections is a number of days since 1 January BaseYear;
\* BaseYear and the two years after it have 365 days.
BaseYear == 2025

MonthLengths == <<31, 28, 31, 30, 31, 30, 31, 31, 30, 31, 30, 31>>

RECURSIVE DaysBefore(_)
DaysBefore(m) == IF m = 1 THEN 0 ELSE DaysBefore(m - 1) + MonthLengths[m - 1]

\* datetime.year and datetime.month of a date
date_year(d) == BaseYear + d \div 365

date_month(d) ==
    CHOOSE m \in 1..12 : DaysBefore(m) <= d % 365 /\ d % 365 < DaysBefore(m) + MonthLengths[m]

(***************************************************************************)
(* api/v1/revenue_projections.py: the amounts of a subscription            *)
(***************************************************************************)
\* "monthly" of one item, as a numerator over MrrDen (cents)
projection_monthly(item) ==
    IF item.interval = "year" THEN item.amount * CountLcm
    ELSE IF item.interval = "month" THEN (12 * item.amount * CountLcm) \div item.interval_count
    ELSE IF item.interval = "week" THEN 52 * item.amount * CountLcm
    ELSE 0

\* the loop over sub["items"]: sub_amount in cents, sub_mrr over MrrDen,
\* interval_info
RECURSIVE projection_loop(_, _)
projection_loop(items, acc) ==
    IF items = << >> THEN acc
    ELSE LET item == Head(items) IN
         IF item.amount = 0 THEN projection_loop(Tail(items), acc)
         ELSE projection_loop(Tail(items),
                              [sub_amount |-> item.amount,
                               sub_mrr |-> acc.sub_mrr + projection_monthly(item),
                               interval |-> item.interval,
                               interval_count |-> item.interval_count])

projection_amounts(sub) ==
    projection_loop(sub.items, [sub_amount |-> 0, sub_mrr |-> 0, interval |-> "None", interval_count |-> 0])

\* every sequence that takes its i-th element from the i-th set
RECURSIVE AllSeqs(_)
AllSeqs(sets) ==
    IF sets = << >> THEN {<< >>}
    ELSE {<<x>> \o rest : x \in Head(sets), rest \in AllSeqs(Tail(sets))}

\* the values round(num / den, 2) can take
Rounded(num, den) == {RoundRat(num, den, tie) : tie \in Ties}

RECURSIVE sum_of(_, _)
sum_of(seq, field) == IF seq = << >> THEN 0 ELSE Head(seq)[field] + sum_of(Tail(seq), field)

(***************************************************************************)
(* get_month_detail                                                        *)
(***************************************************************************)
\* list.sort(key = invoice_date): a stable insertion sort
RECURSIVE insert_by_date(_, _)
insert_by_date(sorted, inv) ==
    IF sorted = << >> THEN <<inv>>
    ELSE IF Head(sorted).invoice_date <= inv.invoice_date
         THEN <<Head(sorted)>> \o insert_by_date(Tail(sorted), inv)
         ELSE <<inv>> \o sorted

RECURSIVE sort_by_date(_)
sort_by_date(invoices) ==
    IF invoices = << >> THEN << >>
    ELSE insert_by_date(sort_by_date(SubSeq(invoices, 1, Len(invoices) - 1)), invoices[Len(invoices)])

\* every return value of get_month_detail(year, month) at the clock value
\* clock; a parameter that is None is 0
get_month_detail(all_subs, clock, year, month) ==
    LET target_year == IF year # 0 THEN year ELSE date_year(clock)
        target_month == IF month # 0 THEN month ELSE date_month(clock)
        invoicing == SelectSeq(all_subs, LAMBDA sub :
                        /\ projection_amounts(sub).sub_mrr # 0
                        /\ date_year(sub.current_period_end) = target_year
                        /\ date_month(sub.current_period_end) = target_month)
    IN IF ~(1 <= target_month /\ target_month <= 12)
       THEN {Raise("HTTPException 400")}
       ELSE {LET month_invoices == sort_by_date(
                     [i \in 1..Len(invoicing) |->
                         LET a == projection_amounts(invoicing[i]) IN
                         [customer_id |-> invoicing[i].customer,
                          subscription_id |-> invoicing[i].id,
                          invoice_date |-> invoicing[i].current_period_end,
                          invoice_amount |-> a.sub_amount,
                          mrr |-> RoundRat(a.sub_mrr, MrrDen, t[i]),
                          interval |-> a.interval,
                          interval_count |-> a.interval_count]])
             IN Ok([year |-> target_year,
                    month_number |-> target_month,
                    customer_count |-> Len(month_invoices),
                    total_invoice_amount |-> sum_of(month_invoices, "invoice_amount"),
                    total_mrr_represented |-> sum_of(month_invoices, "mrr"),
                    invoices |-> month_invoices]) :
             t \in BillingTies(invoicing)}

(***************************************************************************)
(* get_quarterly_revenue_forecast                                          *)
(***************************************************************************)
\* the subscriptions invoicing in one calendar month
invoicing_in(all_subs, year, month) ==
    SelectSeq(all_subs, LAMBDA sub : /\ date_year(sub.current_period_end) = year
                                     /\ date_month(sub.current_period_end) = month)

\* the amounts of the subscriptions the loops of a period visit, in order
amounts_of(subs) == [i \in 1..Len(subs) |-> projection_amounts(subs[i])]

\* the months of the quarter at quarter_offset, as <<year, month>>
quarter_months(clock, quarter_offset) ==
    LET raw == date_month(clock) + quarter_offset * 3
        quarter_year == date_year(clock) + (raw - 1) \div 12
        quarter_start_month == ((raw - 1) % 12) + 1
    IN [month_offset \in 1..3 |->
          LET month == quarter_start_month + (month_offset - 1)
          IN IF month > 12 THEN <<quarter_year + 1, month - 12>> ELSE <<quarter_year, month>>]

\* the entries of quarterly_data without average_mrr, and the unrounded
\* quarter_mrr / 3 over 3 * MrrDen
quarter_entry(all_subs, clock, quarter_offset) ==
    LET months == quarter_months(clock, quarter_offset)
        visited == invoicing_in(all_subs, months[1][1], months[1][2])
                   \o invoicing_in(all_subs, months[2][1], months[2][2])
                   \o invoicing_in(all_subs, months[3][1], months[3][2])
        quarter_start_month == months[1][2]
    IN [year |-> months[1][1],
        quarter_number |-> ((quarter_start_month - 1) \div 3) + 1,
        projected_invoice_amount |-> sum_of(amounts_of(visited), "sub_amount"),
        quarter_mrr |-> sum_of(amounts_of(visited), "sub_mrr"),
        \* locals of the iteration, not part of the dict
        months |-> months,
        invoicing |-> [i \in 1..Len(visited) |-> visited[i].id]]

with_average_mrr(entry, average_mrr) ==
    [year |-> entry.year, quarter_number |-> entry.quarter_number,
     projected_invoice_amount |-> entry.projected_invoice_amount,
     average_mrr |-> average_mrr, months |-> entry.months, invoicing |-> entry.invoicing]

\* every return value of get_quarterly_revenue_forecast(quarters)
get_quarterly_revenue_forecast(all_subs, clock, quarters) ==
    LET entries == [q \in 1..quarters |-> quarter_entry(all_subs, clock, q - 1)]
    IN {Ok([quarters |-> [q \in 1..quarters |-> with_average_mrr(entries[q], avg[q])]]) :
        avg \in AllSeqs([q \in 1..quarters |-> Rounded(entries[q].quarter_mrr, 3 * MrrDen)])}

(***************************************************************************)
(* get_annual_revenue_forecast                                             *)
(***************************************************************************)
month_entry(all_subs, clock, month_offset) ==
    LET target_date == clock + month_offset * 30
        visited == invoicing_in(all_subs, date_year(target_date), date_month(target_date))
    IN [month_number |-> date_month(target_date),
        year |-> date_year(target_date),
        customers_invoicing |-> Len(visited),
        projected_invoice_amount |-> sum_of(amounts_of(visited), "sub_amount"),
        month_mrr |-> sum_of(amounts_of(visited), "sub_mrr"),
        \* local of the iteration, not part of the dict
        invoicing |-> [i \in 1..Len(visited) |-> visited[i].id]]

with_mrr_represented(entry, mrr_represented) ==
    [month_number |-> entry.month_number, year |-> entry.year,
     customers_invoicing |-> entry.customers_invoicing,
     projected_invoice_amount |-> entry.projected_invoice_amount,
     mrr_represented |-> mrr_represented, invoicing |-> entry.invoicing]

\* every return value of get_annual_revenue_forecast()
get_annual_revenue_forecast(all_subs, clock) ==
    LET entries == [k \in 1..12 |-> month_entry(all_subs, clock, k - 1)]
    IN {Ok([monthly_projections |-> [k \in 1..12 |-> with_mrr_represented(entries[k], mrr[k])]]) :
        mrr \in AllSeqs([k \in 1..12 |-> Rounded(entries[k].month_mrr, MrrDen)])}

(***************************************************************************)
(* The subscriptions of the projections                                    *)
(***************************************************************************)
\* the days the projections are asked for: 1 and 31 January, 15 February,
\* 1 April, 30 November, 31 December of BaseYear
ProjectionDays == {0, 30, 45, 90, 333, 364}

\* current_period_end, in days after the clock
RenewalOffsets == {0, 20, 75, 364}

\* the items of a subscription: one price, a dollar-free trial next to a
\* price, two prices
ProjectionItems ==
    {<<Item(999, "month", 1)>>,
     <<Item(999 * MaxCount, "month", MaxCount), Item(0, "month", 1)>>,
     <<Item(999, "month", 1), Item(18, "year", 1)>>}

projection_subscriptions(n, f, clock) ==
    [i \in 1..n |-> [id |-> i, customer |-> "cus_1", current_period_end |-> clock + f[i][2],
                     items |-> f[i][1]]]

InitProjections ==
    /\ \E clock \in ProjectionDays :
         /\ now = clock
         /\ \E n \in 0..MaxSubs :
              \E f \in [1..n -> ProjectionItems \X RenewalOffsets] :
                 subscriptions = projection_subscriptions(n, f, clock)
    /\ stripe = << >>
    /\ op = "init"
    /\ arg = << >>
    /\ out = << >>
    /\ frame = << >>
    /\ cache = << >>

\* the month parameters of /month-detail: left out (None, passed on as 0),
\* or an integer
MonthParams == {[given |-> FALSE, month |-> 0]} \cup {[given |-> TRUE, month |-> m] : m \in {0, 1, 4, 13}}

\* GET /month-detail?year=&month=
GetMonthDetail ==
    /\ op = "init"
    /\ \E year \in {0, BaseYear + 1}, param \in MonthParams :
         /\ op' = "get_month_detail"
         /\ arg' = [year |-> year, month |-> param.month, month_given |-> param.given]
         /\ out' \in get_month_detail(subscriptions, now, year, param.month)
    /\ UNCHANGED <<subscriptions, stripe, now, frame, cache>>

\* GET /quarterly-forecast?quarters=
GetQuarterlyRevenueForecast ==
    /\ op = "init"
    /\ \E quarters \in {1, 4, 8} :
         /\ op' = "get_quarterly_revenue_forecast"
         /\ arg' = [quarters |-> quarters]
         /\ out' \in get_quarterly_revenue_forecast(subscriptions, now, quarters)
    /\ UNCHANGED <<subscriptions, stripe, now, frame, cache>>

\* GET /annual-forecast
GetAnnualRevenueForecast ==
    /\ op = "init"
    /\ op' = "get_annual_revenue_forecast"
    /\ arg' = << >>
    /\ out' \in get_annual_revenue_forecast(subscriptions, now)
    /\ UNCHANGED <<subscriptions, stripe, now, frame, cache>>

NextProjections ==
    \/ GetMonthDetail
    \/ GetQuarterlyRevenueForecast
    \/ GetAnnualRevenueForecast

SpecProjections == InitProjections /\ [][NextProjections]_vars

(***************************************************************************)
(* The paginated list calls of the provider                                *)
(***************************************************************************)
MAX_ITERATIONS == 100

DEFAULT_PAGE_SIZE == 100

\* the provider has the objects with ids 1..MaxObjects at most, or about
\* MAX_ITERATIONS of them
MaxObjects == 3

\* the page requests after which the model stops following a loop that
\* has no iteration count of its own
PageHorizon == 101

Min(a, b) == IF a < b THEN a ELSE b

\* A provider serves its objects in the order of their ids.  An honest one
\* reports has_more while objects are left; one with a pagination bug
\* reports has_more = true on every page ("always_more", which ends in
\* empty pages) or serves its first page whatever the cursor ("repeats").
ListModes == {"honest", "always_more", "repeats"}

\* list_fn(**page_params): the response; starting_after = 0 is a request
\* without starting_after
list_fn(provider, page_params) ==
    LET cursor == IF provider.mode = "repeats" THEN 0 ELSE page_params.starting_after
        last == Min(cursor + page_params.limit, provider.objects)
    IN [data |-> [i \in 1..(last - cursor) |-> [id |-> cursor + i]],
        has_more |-> IF provider.mode = "honest" THEN last < provider.objects ELSE TRUE]

\* the filter_fn of a caller: None, or a test of the item
FilterFns == {"None", "odd_id"}

filter_fn(name, item) == name = "None" \/ item.id % 2 = 1

\* the item_processor of a caller: None, or a function to a dict that is
\* None for some items
ItemProcessors == {"None", "process"}

item_processor(item) ==
    IF item.id % 3 = 0 THEN [id |-> item.id, kind |-> "None"] ELSE [id |-> item.id, kind |-> "dict"]

\* for item in response.data: the results the page adds
page_results(data, params) ==
    LET kept == SelectSeq(data, LAMBDA item :
                    /\ filter_fn(params.filter_fn, item)
                    /\ params.item_processor = "None" \/ item_processor(item).kind # "None")
    IN [i \in 1..Len(kept) |->
          IF params.item_processor = "None" THEN kept[i] ELSE item_processor(kept[i])]

\* starting_after = response.data[-1].id
last_id_takes_first(response) == response.data[1].id

last_id(response) == response.data[Len(response.data)].id

\* the locals of _paginate_stripe_list before the loop; requests is the log
\* of the page_params handed to list_fn
paginate_start ==
    [fn |-> "_paginate_stripe_list", pc |-> "while", results |-> << >>, starting_after |-> 0,
     iteration |-> 0, total_fetched |-> 0, requests |-> << >>]

\* one iteration of the loop of _paginate_stripe_list, up to the next test
\* of the loop condition
paginate_iteration(f, provider, params) ==
    LET iteration == f.iteration + 1
        page_params == [limit |-> params.page_size, starting_after |-> f.starting_after]
        response == list_fn(provider, page_params)
        after == [fn |-> f.fn,
                  pc |-> "while",
                  results |-> f.results \o page_results(response.data, params),
                  starting_after |-> f.starting_after,
                  iteration |-> iteration,
                  total_fetched |-> f.total_fetched + Len(response.data),
                  requests |-> Append(f.requests, page_params)]
    IN IF ~response.has_more THEN [after EXCEPT !.pc = "return"]
       ELSE IF response.data = << >> THEN [after EXCEPT !.pc = "return"]
       ELSE IF iteration < MAX_ITERATIONS
            THEN [after EXCEPT !.starting_after = last_id(response)]
            ELSE [after EXCEPT !.starting_after = last_id(response), !.pc = "return"]

\* the locals of get_all_subscriptions_with_lifecycle before the loop; an
\* entry of all_subs is the id of its dict
lifecycle_start ==
    [fn |-> "get_all_subscriptions_with_lifecycle", pc |-> "while", all_subs |-> << >>,
     starting_after |-> 0, requests |-> << >>]

\* one iteration of the loop of get_all_subscriptions_with_lifecycle
lifecycle_iteration(f, provider) ==
    LET params == [limit |-> 100, starting_after |-> f.starting_after]
        response == list_fn(provider, params)
        after == [fn |-> f.fn,
                  pc |-> "while",
                  all_subs |-> f.all_subs \o [i \in 1..Len(response.data) |-> response.data[i].id],
                  starting_after |-> f.starting_after,
                  requests |-> Append(f.requests, params)]
    IN IF ~response.has_more THEN [after EXCEPT !.pc = "return"]
       ELSE IF response.data = << >> THEN [after EXCEPT !.pc = "IndexError"]
       ELSE [after EXCEPT !.starting_after = last_id(response)]

(***************************************************************************)
(* MetricsCacheService.get_all_latest_metrics                              *)
(***************************************************************************)
PAGE_SIZE == 1000

CACHE_MAX_ITERATIONS == 10

\* The metrics_cache table has rows 1..rows in the order of fetched_at,
\* latest first; an honest store serves the rows of the range, one with a
\* pagination bug a full page whatever the range ("full_pages").
StoreModes == {"honest", "full_pages"}

MetricTypes == <<"stripe_mrr", "attrition_summary">>

row_metric_type(position) == MetricTypes[(position % 2) + 1]

\* .range(offset, offset + PAGE_SIZE - 1).execute(): the positions served
table_range(store, offset) ==
    IF store.mode = "full_pages" THEN [first |-> 1, count |-> PAGE_SIZE]
    ELSE [first |-> offset + 1,
          count |-> IF store.rows > offset THEN Min(PAGE_SIZE, store.rows - offset) ELSE 0]

\* the locals of get_all_latest_metrics before the loop; all_entries is the
\* list of the ranges of positions it was extended by
metrics_start ==
    [fn |-> "get_all_latest_metrics", pc |-> "while", all_entries |-> << >>, offset |-> 0,
     iteration |-> 0]

\* one iteration of the loop of get_all_latest_metrics, up to the next test
\* of the loop condition
metrics_iteration(f, store) ==
    LET iteration == f.iteration + 1
        data == table_range(store, f.offset)
        after == [fn |-> f.fn, pc |-> "while", all_entries |-> Append(f.all_entries, data),
                  offset |-> f.offset, iteration |-> iteration]
    IN IF data.count = 0 THEN [f EXCEPT !.iteration = iteration, !.pc = "return"]
       ELSE IF data.count < PAGE_SIZE THEN [after EXCEPT !.pc = "return"]
       ELSE IF iteration < CACHE_MAX_ITERATIONS
            THEN [after EXCEPT !.offset = f.offset + PAGE_SIZE]
            ELSE [after EXCEPT !.offset = f.offset + PAGE_SIZE, !.pc = "return"]

\* latest_by_type: for every metric_type among the entries, the position of
\* its first entry
latest_by_type(all_entries) ==
    LET has(mt, r) == \E k \in 0..Min(r.count, 2) - 1 : row_metric_type(r.first + k) = mt
        first_of(mt, r) == IF row_metric_type(r.first) = mt THEN r.first ELSE r.first + 1
        types == {mt \in {MetricTypes[1], MetricTypes[2]} :
                     \E i \in 1..Len(all_entries) : has(mt, all_entries[i])}
    IN [mt \in types |->
          LET i == CHOOSE i \in 1..Len(all_entries) :
                      /\ has(mt, all_entries[i])
                      /\ \A j \in 1..(i - 1) : ~has(mt, all_entries[j])
          IN [position |-> first_of(mt, all_entries[i]), is_cached |-> TRUE]]

(***************************************************************************)
(* The paginated fetches, one page request a step                          *)
(***************************************************************************)
ObjectCounts == (0..MaxObjects) \cup {MAX_ITERATIONS - 1, MAX_ITERATIONS, MAX_ITERATIONS + 1}

RowCounts == {0, 1, PAGE_SIZE, PAGE_SIZE + 1, CACHE_MAX_ITERATIONS * PAGE_SIZE + 1}

InitPagination ==
    /\ \/ /\ \E n \in ObjectCounts, mode \in ListModes : stripe = [objects |-> n, mode |-> mode]
          /\ cache = << >>
       \/ /\ \E n \in RowCounts, mode \in StoreModes : cache = [rows |-> n, mode |-> mode]
          /\ stripe = << >>
    /\ subscriptions = << >>
    /\ now = Today
    /\ op = "init"
    /\ arg = << >>
    /\ out = << >>
    /\ frame = << >>

\* the call of StripeService._paginate_stripe_list
PaginateStripeList ==
    /\ op = "init"
    /\ stripe # << >>
    /\ \E page_size \in {1, 2, DEFAULT_PAGE_SIZE}, f \in FilterFns, p \in ItemProcessors :
         arg' = [page_size |-> page_size, filter_fn |-> f, item_processor |-> p]
    /\ op' = "_paginate_stripe_list"
    /\ frame' = paginate_start
    /\ UNCHANGED <<subscriptions, stripe, now, out, cache>>

\* while iteration < MAX_ITERATIONS: one page request
PaginateIteration ==
    /\ op = "_paginate_stripe_list"
    /\ frame.pc = "while"
    /\ frame' = paginate_iteration(frame, stripe, arg)
    /\ out' = IF frame'.pc = "return" THEN Ok(frame'.results) ELSE out
    /\ UNCHANGED <<subscriptions, stripe, now, op, arg, cache>>

\* the call of RetentionService.get_all_subscriptions_with_lifecycle
GetAllSubscriptionsWithLifecycle ==
    /\ op = "init"
    /\ stripe # << >>
    /\ op' = "get_all_subscriptions_with_lifecycle"
    /\ frame' = lifecycle_start
    /\ UNCHANGED <<subscriptions, stripe, now, arg, out, cache>>

\* while True: one page request
LifecycleIteration ==
    /\ op = "get_all_subscriptions_with_lifecycle"
    /\ frame.pc = "while"
    /\ Len(frame.requests) < PageHorizon
    /\ frame' = lifecycle_iteration(frame, stripe)
    /\ out' = IF frame'.pc = "return" THEN Ok(frame'.all_subs)
              ELSE IF frame'.pc = "IndexError" THEN Raise("IndexError")
              ELSE out
    /\ UNCHANGED <<subscriptions, stripe, now, op, arg, cache>>

\* the call of MetricsCacheService.get_all_latest_metrics
GetAllLatestMetrics ==
    /\ op = "init"
    /\ cache # << >>
    /\ op' = "get_all_latest_metrics"
    /\ frame' = metrics_start
    /\ UNCHANGED <<subscriptions, stripe, now, arg, out, cache>>

\* while iteration < MAX_ITERATIONS: one range request
MetricsIteration ==
    /\ op = "get_all_latest_metrics"
    /\ frame.pc = "while"
    /\ frame' = metrics_iteration(frame, cache)
    /\ out' = IF frame'.pc = "return" THEN Ok(latest_by_type(frame'.all_entries)) ELSE out
    /\ UNCHANGED <<subscriptions, stripe, now, op, arg, cache>>

NextPagination ==
    \/ PaginateStripeList
    \/ PaginateIteration
    \/ GetAllSubscriptionsWithLifecycle
    \/ LifecycleIteration
    \/ GetAllLatestMetrics
    \/ MetricsIteration

SpecPagination == InitPagination /\ [][NextPagination]_vars

(***************************************************************************)
(* MetricsCacheService.save_metrics / get_latest_metrics and the fallback  *)
(* of api/v1/attrition.py                                                  *)
(***************************************************************************)
\* the body of save_metrics, when it runs: a row is inserted
save_metrics(table, metric_type, data, source, clock) ==
    Append(table, [metric_type |-> metric_type, data |-> data, source |-> source, fetched_at |-> clock])

\* the body of get_latest_metrics, when it runs: the row of the type with
\* the latest fetched_at, or None
get_latest_metrics(table, metric_type) ==
    LET rows == SelectSeq(table, LAMBDA row : row.metric_type = metric_type)
    IN IF rows = << >> THEN [kind |-> "None"]
       ELSE LET entry == rows[CHOOSE i \in 1..Len(rows) :
                                 \A j \in 1..Len(rows) : rows[j].fetched_at <= rows[i].fetched_at]
            IN [kind |-> "dict", data |-> entry.data, fetched_at |-> entry.fetched_at,
                source |-> entry.source, is_cached |-> TRUE]

\* save_metrics and get_latest_metrics are "async def": a call without
\* await returns a coroutine object and runs nothing of the body
call_without_await(name) == [kind |-> "coroutine", fn |-> name]

\* if cached:
truthy(value) == value.kind # "None"

\* cached["_from_cache"] = True
set_from_cache(cached) ==
    IF cached.kind = "dict"
    THEN Ok([data |-> cached.data, fetched_at |-> cached.fetched_at, source |-> cached.source,
             is_cached |-> cached.is_cached, _from_cache |-> TRUE])
    ELSE Raise("TypeError")

\* GET /attrition/summary with the result of the live computation: the
\* response, and the metrics_cache table after it
attrition_summary_endpoint(live, table) ==
    IF live.exc = "none"
    THEN \* MetricsCacheService.save_metrics(...) makes a coroutine that is
         \* never awaited
         [response |-> live, table |-> table, saved |-> call_without_await("save_metrics")]
    ELSE LET cached == call_without_await("get_latest_metrics")
             marked == IF truthy(cached) THEN set_from_cache(cached) ELSE Raise("falsy")
         IN [response |-> IF marked.exc = "none" THEN marked ELSE Raise("HTTPException 500"),
             table |-> table,
             saved |-> cached]

\* the requests the model follows
MaxRequests == 3

\* the rows other services have saved
OtherRows == {<< >>, save_metrics(<< >>, "cashflow_summary", [runway |-> 0], "aggregated", Today - 1)}

InitFallback ==
    /\ \E n \in 0..MaxSubs :
          \E f \in [1..n -> RetentionLives] : subscriptions = lifecycle_subscriptions(f)
    /\ stripe = [status |-> "up"]
    /\ cache \in OtherRows
    /\ now = Today
    /\ op = "init"
    /\ arg = << >>
    /\ out = << >>
    /\ frame = [request_id |-> 0]

\* the provider starts to raise on every call
ProviderFails ==
    /\ stripe.status = "up"
    /\ stripe' = [status |-> "down"]
    /\ UNCHANGED <<subscriptions, now, op, arg, out, frame, cache>>

ProviderRecovers ==
    /\ stripe.status = "down"
    /\ stripe' = [status |-> "up"]
    /\ UNCHANGED <<subscriptions, now, op, arg, out, frame, cache>>

\* GET /attrition/summary
GetAttritionSummaryEndpoint ==
    /\ frame.request_id < MaxRequests
    /\ frame' = [request_id |-> frame.request_id + 1]
    /\ op' = "GET /attrition/summary"
    /\ \E early_period_days \in EarlyPeriods :
         /\ arg' = [early_period_days |-> early_period_days, lookback_months |-> 6]
         /\ \E live \in IF stripe.status = "up"
                        THEN get_attrition_summary(subscriptions, now, early_period_days, 6)
                        ELSE {Raise("stripe.error.APIConnectionError")} :
               /\ out' = attrition_summary_endpoint(live, cache).response
               /\ cache' = attrition_summary_endpoint(live, cache).table
    /\ UNCHANGED <<subscriptions, stripe, now>>

NextFallback ==
    \/ ProviderFails
    \/ ProviderRecovers
    \/ GetAttritionSummaryEndpoint

SpecFallback == InitFallback /\ [][NextFallback]_vars

(***************************************************************************)
(* CashFlowService.get_cashflow_summary                                    *)
(***************************************************************************)
\* d.get(key, default)
dict_get(d, key, default) == IF key \in DOMAIN d THEN d[key] ELSE default

\* billings[:10]
first_10(billings) == SubSeq(billings, 1, Min(Len(billings), 10))

\* what CashFlowService.get_upcoming_billings returns when
\* StripeService.get_upcoming_billings raises
billings_error ==
    LET empty == [billings |-> << >>, total |-> 0, count |-> 0]
    IN [today |-> empty, tomorrow |-> empty, this_week |-> empty, this_month |-> empty,
        by_cohort |-> << >>, error |-> "stripe.error.APIConnectionError"]

\* CashFlowService.get_upcoming_billings(): StripeService's result for 30
\* days, or the dict of the except branch
cashflow_upcoming_billings(objects, clock, raises) ==
    IF raises THEN {billings_error}
    ELSE {IF r.exc = "none" THEN r.value ELSE billings_error : r \in get_upcoming_billings(objects, clock, 30)}

\* _estimate_runway(cash_on_hand, monthly_revenue), both in cents;
\* estimated_monthly_burn = monthly_revenue * 0.8
estimate_runway(cash_on_hand, monthly_revenue) ==
    IF monthly_revenue <= 0 THEN 0
    ELSE IF 8 * monthly_revenue <= 0 THEN 365
    ELSE IF 10 * monthly_revenue - 8 * monthly_revenue >= 0 THEN 365
    ELSE (cash_on_hand * 10 * 30) \div (8 * monthly_revenue - 10 * monthly_revenue)

\* the summary of get_cashflow_summary for the sources' answers; of the
\* bank and balance data only total_cash is kept
cashflow_summary(total_cash, billings_data) ==
    LET expected_today == dict_get(dict_get(billings_data, "today", << >>), "total", 0)
        expected_tomorrow == dict_get(dict_get(billings_data, "tomorrow", << >>), "total", 0)
        expected_week == dict_get(dict_get(billings_data, "this_week", << >>), "total", 0)
        expected_month == dict_get(dict_get(billings_data, "this_month", << >>), "total", 0)
    IN [upcoming_billings |->
           [today |-> [amount |-> expected_today,
                       count |-> dict_get(dict_get(billings_data, "today", << >>), "count", 0),
                       details |-> first_10(dict_get(dict_get(billings_data, "today", << >>), "billings", << >>))],
            tomorrow |-> [amount |-> expected_tomorrow,
                          count |-> dict_get(dict_get(billings_data, "tomorrow", << >>), "count", 0),
                          details |-> first_10(dict_get(dict_get(billings_data, "tomorrow", << >>), "billings", << >>))],
            this_week |-> [amount |-> expected_week,
                           count |-> dict_get(dict_get(billings_data, "this_week", << >>), "count", 0)],
            this_month |-> [amount |-> expected_month,
                            count |-> dict_get(dict_get(billings_data, "this_month", << >>), "count", 0)],
            by_cohort |-> dict_get(billings_data, "by_cohort", << >>)],
        totals |-> [total_cash_available |-> total_cash,
                    expected_inflows_week |-> expected_week,
                    expected_inflows_month |-> expected_month],
        health_indicators |-> [cash_runway_days |-> estimate_runway(total_cash, expected_month)]]

\* qb_cash + stripe_available, in cents
CashPositions == {0, 1250000}

\* GET /cashflow/summary: the summary is saved in the metrics cache and
\* returned; billings_data is a local at the return
GetCashflowSummary ==
    /\ op = "init"
    /\ \E total_cash \in CashPositions, raises \in BOOLEAN :
         /\ arg' = [total_cash |-> total_cash]
         /\ \E billings_data \in cashflow_upcoming_billings(stripe, now, raises) :
               /\ out' = Ok([summary |-> cashflow_summary(total_cash, billings_data),
                             billings_data |-> billings_data])
               /\ cache' = save_metrics(cache, "cashflow_summary",
                                        cashflow_summary(total_cash, billings_data), "aggregated", now)
    /\ op' = "get_cashflow_summary"
    /\ UNCHANGED <<subscriptions, stripe, now, frame>>

NextCashflow == GetCashflowSummary

SpecCashflow == InitBilling /\ [][NextCashflow]_vars

(***************************************************************************)
(* CacheService: get_metrics and invalidate as tasks of the event loop     *)
(***************************************************************************)
\* settings.CACHE_TTL, in seconds
CACHE_TTL == 300

\* the tasks (requests) the model follows
MaxTasks == 3

Tasks == 1..MaxTasks

Products == {"towpilot", "all_products"}

\* self._cache without the key
NoEntry == [present |-> FALSE, value |-> << >>, expires_at |-> 0]

\* InMemoryCache.get(key): the value or None (<< >>), and the cache after
\* it; an expired entry is deleted
memory_cache_get(entries, key, clock) ==
    IF ~entries[key].present THEN [value |-> << >>, entries |-> entries]
    ELSE IF clock > entries[key].expires_at
         THEN [value |-> << >>, entries |-> [entries EXCEPT ![key] = NoEntry]]
         ELSE [value |-> entries[key].value, entries |-> entries]

\* InMemoryCache.set(key, value) with the default ttl
memory_cache_set(entries, key, value, clock) ==
    [entries EXCEPT ![key] = [present |-> TRUE, value |-> value, expires_at |-> clock + CACHE_TTL]]

\* InMemoryCache.delete(key)
memory_cache_delete(entries, key) == [entries EXCEPT ![key] = NoEntry]

\* a task that has not been called
IdleTask ==
    [fn |-> "idle", pc |-> "idle", product |-> "None", called_at |-> 0, metrics |-> << >>,
     returned |-> << >>, done_at |-> 0]

\* what calculator() computes: the metrics of the data it starts to read at
\* the clock value clock
calculator(product, clock) == [product |-> product, started_at |-> clock]

InitCache ==
    /\ cache = [p \in Products |-> NoEntry]
    /\ frame = [t \in Tasks |-> IdleTask]
    /\ now = 1
    /\ stripe = << >>
    /\ subscriptions = << >>
    /\ op = "init"
    /\ arg = << >>
    /\ out = << >>

\* get_metrics(product, calculator) up to its first suspension: the lookup,
\* then the return of a hit or the call of calculator()
GetMetricsCalled ==
    \E t \in Tasks, product \in Products :
       /\ frame[t].fn = "idle"
       /\ \A u \in 1..(t - 1) : frame[u].fn # "idle"
       /\ LET looked == memory_cache_get(cache, product, now)
              called == [IdleTask EXCEPT !.fn = "get_metrics", !.product = product, !.called_at = now]
          IN /\ cache' = looked.entries
             /\ IF looked.value # << >>
                THEN /\ frame' = [frame EXCEPT ![t] = [called EXCEPT !.pc = "done",
                                                                     !.returned = looked.value,
                                                                     !.done_at = now]]
                     /\ out' = Ok(looked.value)
                ELSE /\ frame' = [frame EXCEPT ![t] = [called EXCEPT !.pc = "await calculator()",
                                                                     !.metrics = calculator(product, now)]]
                     /\ out' = out
       /\ op' = "get_metrics"
       /\ arg' = [task |-> t, product |-> product]
       /\ now' = now + 1
       /\ UNCHANGED <<subscriptions, stripe>>

\* calculator() returns to get_metrics: the metrics are stored and returned
CalculatorReturns ==
    \E t \in Tasks :
       /\ frame[t].pc = "await calculator()"
       /\ cache' = memory_cache_set(cache, frame[t].product, frame[t].metrics, now)
       /\ frame' = [frame EXCEPT ![t] = [frame[t] EXCEPT !.pc = "done", !.returned = frame[t].metrics,
                                                         !.done_at = now]]
       /\ out' = Ok(frame[t].metrics)
       /\ op' = "get_metrics"
       /\ arg' = [task |-> t, product |-> frame[t].product]
       /\ now' = now + 1
       /\ UNCHANGED <<subscriptions, stripe>>

\* POST /cache/refresh/{product}: invalidate(product)
RefreshCache ==
    \E t \in Tasks, product \in Products :
       /\ frame[t].fn = "idle"
       /\ \A u \in 1..(t - 1) : frame[u].fn # "idle"
       /\ cache' = memory_cache_delete(cache, product)
       /\ frame' = [frame EXCEPT ![t] = [IdleTask EXCEPT !.fn = "invalidate", !.pc = "done",
                                                        !.product = product, !.called_at = now,
                                                        !.done_at = now]]
       /\ out' = Ok([message |-> "Cache refreshed", product |-> product])
       /\ op' = "refresh_cache"
       /\ arg' = [task |-> t, product |-> product]
       /\ now' = now + 1
       /\ UNCHANGED <<subscriptions, stripe>>

\* the time to live of an entry passes without a request
TimePasses ==
    /\ now <= CACHE_TTL
    /\ now' = now + CACHE_TTL
    /\ UNCHANGED <<subscriptions, stripe, op, arg, out, frame, cache>>

NextCache ==
    \/ GetMetricsCalled
    \/ CalculatorReturns
    \/ RefreshCache
    \/ TimePasses

SpecCache == InitCache /\ [][NextCache]_vars

(***************************************************************************)
(* Interval normalisation (C1)                                             *)
(***************************************************************************)
\* the monthly share the specification gives a priced item, in cents, as a
\* numerator over 12 * k
MonthlyShare(A, interval, k) ==
    CASE interval = "month" -> 12 * A
      [] interval = "year" -> A
      [] interval = "week" -> 52 * A
      [] interval = "day" -> 12 * 30 * A
      [] OTHER -> 0

\* 12 * CountLcm times the sum of the monthly shares of the non-zero items
RECURSIVE ShareSum(_)
ShareSum(items) ==
    IF items = << >> THEN 0
    ELSE LET it == Head(items) IN
         (IF it.amount = 0 THEN 0
          ELSE (MonthlyShare(it.amount, it.interval, it.interval_count) * CountLcm) \div it.interval_count)
         + ShareSum(Tail(items))

AllCountsGiven(subs) ==
    \A n \in 1..Len(all_items(subs)) :
        all_items(subs)[n].ic_kind = "int" /\ all_items(subs)[n].interval_count >= 1

Abs(x) == IF x < 0 THEN -x ELSE x

\* C1: when every item states an interval_count k >= 1, calculate_mrr
\* returns, without raising, a value within half a cent of the sum over all
\* non-zero items of A/k (month), A/12/k (year), 52A/12/k (week), 30A/k (day)
\* and 0 (any other or missing interval): that sum rounded to 2 decimals.
C1_MrrIsRoundedSumOfShares ==
    (op = "calculate_mrr" /\ AllCountsGiven(subscriptions)) =>
        /\ out.exc = "none"
        /\ 2 * Abs(out.value * 12 * CountLcm - ShareSum(all_items(subscriptions))) <= 12 * CountLcm

\* a list with a price billed every k > 1 intervals and a price of another
\* interval has been summed to a positive MRR
C1_Witness ==
    /\ op = "calculate_mrr"
    /\ AllCountsGiven(subscriptions)
    /\ out.exc = "none" /\ out.value > 0
    /\ \E m, n \in 1..Len(all_items(subscriptions)) :
          LET a == all_items(subscriptions)[m]
              b == all_items(subscriptions)[n]
          IN /\ a.amount > 0 /\ a.interval = "month" /\ a.interval_count > 1
             /\ b.amount > 0 /\ b.interval = "year"

(***************************************************************************)
(* Scaling law (C2)                                                        *)
(***************************************************************************)
\* C2: calculate_mrr of an item priced k * A with interval_count k returns
\* exactly the value it returns for the item priced A with interval_count 1,
\* for every interval in {day, week, month, year}, A > 0 and k >= 1.
C2_ScalingLaw ==
    op = "scaled_price" => out.a = out.b

(***************************************************************************)
(* Absent or null interval_count (C3)                                      *)
(***************************************************************************)
\* C3: on a list with items whose interval_count is absent or None,
\* calculate_mrr and calculate_acv raise nothing and return what they return
\* for the same list with interval_count = 1 in those items.
C3_DefaultCountIsOne ==
    op = "default_count" =>
        /\ out.mrr_a.exc = "none" /\ out.acv_a.exc = "none"
        /\ out.mrr_a = out.mrr_b
        /\ out.acv_a = out.acv_b

\* a priced item with interval_count None has been valued, MRR and ACV
C3_Witness ==
    /\ op = "default_count"
    /\ subscriptions[1].items[1].ic_kind = "null"
    /\ arg.b[1].items[1].ic_kind = "int" /\ arg.b[1].items[1].interval_count = 1
    /\ out.mrr_a.exc = "none" /\ out.mrr_a.value > 0
    /\ out.acv_a.exc = "none" /\ out.acv_a.value > 0

(***************************************************************************)
(* Zero filtering (C4)                                                     *)
(***************************************************************************)
\* C4: a $0 item of any interval and interval_count added to a subscription
\* of a list leaves calculate_mrr and calculate_acv of the list unchanged.
C4_ZeroItemChangesNothing ==
    op = "add_zero_item" =>
        /\ out.mrr_a = out.mrr_b
        /\ out.acv_a = out.acv_b

\* a $0 yearly item has been added to a list of several subscriptions worth
\* a positive MRR and ACV
C4_Witness ==
    /\ op = "add_zero_item"
    /\ Len(subscriptions) >= 2
    /\ Len(all_items(arg.b)) = Len(all_items(subscriptions)) + 1
    /\ \E i \in 1..Len(arg.b) :
          /\ arg.b[i].items # subscriptions[i].items
          /\ arg.b[i].items[Len(arg.b[i].items)].amount = 0
          /\ arg.b[i].items[Len(arg.b[i].items)].interval = "year"
    /\ out.mrr_b.exc = "none" /\ out.mrr_b.value > 0
    /\ out.acv_b.exc = "none" /\ out.acv_b.value > 0

(***************************************************************************)
(* Order and split invariance of MRR (C5)                                  *)
(***************************************************************************)
\* C5: calculate_mrr returns the same value for every permutation of the
\* subscription list and for every split of a multi-item subscription into
\* single-item subscriptions of the same customer.
C5_MrrOrderAndSplitInvariant ==
    op \in {"reorder", "split_subscription"} => out.mrr_a = out.mrr_b

(***************************************************************************)
(* Split of a subscription and ACV (C6)                                    *)
(***************************************************************************)
\* the annual value the specification gives an item, in cents, as a numerator
\* over k
AnnualShare(A, interval) ==
    CASE interval = "year" -> A
      [] interval = "month" -> 12 * A
      [] interval = "day" -> 365 * A
      [] OTHER -> 0

\* CountLcm times the summed annual value of the items
RECURSIVE AnnualSum(_)
AnnualSum(items) ==
    IF items = << >> THEN 0
    ELSE (AnnualShare(Head(items).amount, Head(items).interval) * CountLcm) \div Head(items).interval_count
         + AnnualSum(Tail(items))

IsRoundedMean(acv, total, n) ==
    /\ acv.exc = "none"
    /\ 2 * Abs(acv.value * CountLcm * n - total) <= CountLcm * n

\* C6 as stated: calculate_acv is the same before and after a multi-item
\* subscription is split into single-item subscriptions of the same customer.
C6_AcvSplitInvariant ==
    op = "split_subscription" => out.acv_a = out.acv_b

\* C6 amended: the split leaves the summed annual value T of the list
\* unchanged and raises the number of subscriptions, so calculate_acv goes
\* from T / n rounded to 2 decimals to T / n' rounded to 2 decimals, n' > n
\* the number of subscriptions after the split.
C6_AcvSplitKeepsTotal ==
    (op = "split_subscription" /\ AllCountsGiven(subscriptions)) =>
        /\ Len(arg.b) > Len(subscriptions)
        /\ IsRoundedMean(out.acv_a, AnnualSum(all_items(subscriptions)), Len(subscriptions))
        /\ IsRoundedMean(out.acv_b, AnnualSum(all_items(subscriptions)), Len(arg.b))

\* a subscription with two priced items has been split and the ACV changed
C6_Witness ==
    /\ op = "split_subscription"
    /\ AllCountsGiven(subscriptions)
    /\ out.acv_a.exc = "none" /\ out.acv_b.exc = "none"
    /\ out.acv_b.value > 0
    /\ out.acv_a.value > out.acv_b.value

(***************************************************************************)
(* ARPU denominator (C7)                                                   *)
(***************************************************************************)
\* C7: calculate_arpu divides MRR by the number of distinct paying customers:
\* a customer with several subscriptions counts once, a customer with only
\* $0 items does not count, and the count equals the customer count of
\* _compute_towpilot_metrics on the same list.
C7_ArpuCountsPayingCustomers ==
    (op = "compute_towpilot_metrics" /\ out.arpu.exc = "none" /\ out.metrics.exc = "none") =>
        /\ out.arpu.value.total_customers = Cardinality(paying_customers(subscriptions))
        /\ out.arpu.value.total_customers = out.metrics.value.towpilot_customers

(***************************************************************************)
(* Customer churn (C8)                                                     *)
(***************************************************************************)
WindowStart == now - arg.months * 30

\* the subscriptions active at the start of the window, by the specification
ActiveAtStart ==
    {stripe[i].id : i \in {n \in 1..Len(stripe) :
        /\ stripe[n].created < WindowStart
        /\ (stripe[n].status = "active" \/ stripe[n].canceled_at >= WindowStart)}}

\* the subscriptions churned in the window [start, end)
ChurnedInWindow ==
    {stripe[i].id : i \in {n \in 1..Len(stripe) :
        WindowStart <= stripe[n].canceled_at /\ stripe[n].canceled_at < now}}

DistinctCustomers(ids) == {stripe[i].customer : i \in ids}

C9_ChurnMrrAppliesIntervalCount ==
    (op = "calculate_churn_rate" /\ out.exc = "none") =>
        \E tie \in Ties :
            out.value.current_mrr = calculate_mrr(get_active_subscriptions(stripe), tie).value

(***************************************************************************)
(* Net retention (C10)                                                     *)
(***************************************************************************)
\* C10: there is a subscription history for which
\* calculate_expansion_metrics, called at the present time, reports
\* net_retention above 100 and expansion_revenue_pct above 0.
C10_NetRetentionCanExceed100 ==
    \E n \in 0..MaxSubs :
        \E f \in [1..n -> Customers \X Lifecycles \X Prices] :
            \E r \in calculate_expansion_metrics(provider_subscriptions(n, f), now) :
                /\ r.exc = "none"
                /\ r.value.net_retention > 100 * 10
                /\ r.value.expansion_revenue_pct > 0

\* what the code does instead: the MRR of the survivors is part of the MRR at
\* start, both taken from the items as they are now
NetRetentionAtMost100 ==
    (op = "calculate_expansion_metrics" /\ out.exc = "none") =>
        /\ out.value.current_mrr <= out.value.mrr_at_start
        /\ out.value.net_retention <= 100 * 10

(***************************************************************************)
(* Zero denominators (C11)                                                 *)
(***************************************************************************)
\* C11: no retention computation raises on a zero denominator: for every
\* list and every window, lookback_months = 0 included,
\* calculate_cohort_retention, calculate_early_churn and
\* calculate_steady_state_churn return a result.
C11_NoZeroDivision ==
    op \in {"calculate_cohort_retention", "calculate_early_churn", "calculate_steady_state_churn"}
        => out.exc = "none"

(***************************************************************************)
(* Cohort retention (C12, C13)                                             *)
(***************************************************************************)
\* daysActive of the specification: canceled_at if set, else the analysis
\* time, minus created
DaysActive(sub) == (IF sub.canceled_at # 0 THEN sub.canceled_at ELSE now) - sub.created

RetainedCount(H) == Cardinality({i \in 1..Len(subscriptions) : DaysActive(subscriptions[i]) >= H})

\* p, in tenths of a percent, is k / n * 100 to the nearest tenth
IsPctOf(p, k, n) == 2 * Abs(p * n - k * 100 * 10) <= n

\* the cohort of the example: a active, b canceled within 40 days of signup,
\* c canceled at day 100
IsExampleCohort(a, b, c) ==
    /\ Len(subscriptions) = a + b + c
    /\ Cardinality({i \in 1..Len(subscriptions) : subscriptions[i].canceled_at = 0}) = a
    /\ Cardinality({i \in 1..Len(subscriptions) :
           subscriptions[i].canceled_at # 0 /\ DaysActive(subscriptions[i]) < 30}) = b
    /\ Cardinality({i \in 1..Len(subscriptions) : DaysActive(subscriptions[i]) = 100}) = c
    /\ \A i \in 1..Len(subscriptions) : subscriptions[i].created = 20

\* the counts and percentages of the result are those of the formula
FollowsRetentionFormula ==
    /\ out.exc = "none"
    /\ out.value.total = Len(subscriptions)
    /\ \A H \in {30, 60, 90, 180, 365} :
          /\ out.value.retained[H] = RetainedCount(H)
          /\ IsPctOf(out.value.retention_pct[H], RetainedCount(H), Len(subscriptions))

\* C12: for a non-empty cohort and every horizon H, retained_Hd is the
\* number of subscriptions with daysActive >= H and retention_Hd_pct is
\* retained_Hd / cohort size * 100; a cohort of 10 with 2 cancellations
\* within 40 days, 1 at day 100 and 7 active gives 80, 70 and 70 percent at
\* 30, 90 and 365 days.
C12_CohortRetentionByHorizon ==
    (op = "calculate_cohort_retention" /\ Len(subscriptions) > 0) =>
        /\ FollowsRetentionFormula
        /\ IsExampleCohort(7, 2, 1) =>
              /\ out.value.retention_pct[30] = 800
              /\ out.value.retention_pct[90] = 700
              /\ out.value.retention_pct[365] = 700

\* C12, amended: the same counts and percentages; the cohort of 10 gives 80
\* percent at 30 days, 80 percent at 90 days, the subscription canceled at
\* day 100 having been active for 90 days, and 70 percent at 180 and 365
\* days.
C12_CohortRetentionDay100Retained ==
    (op = "calculate_cohort_retention" /\ Len(subscriptions) > 0) =>
        /\ FollowsRetentionFormula
        /\ IsExampleCohort(7, 2, 1) =>
              /\ out.value.retention_pct[30] = 800
              /\ out.value.retention_pct[90] = 800
              /\ out.value.retention_pct[180] = 700
              /\ out.value.retention_pct[365] = 700

\* the cohort of the example, analysed
C12_Witness ==
    /\ op = "calculate_cohort_retention"
    /\ IsExampleCohort(7, 2, 1)
    /\ out.value.retained[30] = 8
    /\ out.value.retention_pct[365] = 700

\* C13: retained_30d >= retained_60d >= retained_90d >= retained_180d >=
\* retained_365d, the percentages are ordered the same way, and none exceeds
\* the cohort total or 100 percent.
C13_HorizonMonotonicity ==
    op = "calculate_cohort_retention" =>
        /\ out.exc = "none"
        /\ \A G, H \in {30, 60, 90, 180, 365} :
              G <= H => /\ out.value.retained[G] >= out.value.retained[H]
                        /\ out.value.retention_pct[G] >= out.value.retention_pct[H]
        /\ \A H \in {30, 60, 90, 180, 365} :
              /\ out.value.retained[H] <= out.value.total
              /\ out.value.retention_pct[H] <= 100 * 10

\* a cohort that loses subscriptions before the first horizon and between
\* two later ones, and keeps some to the last
C13_Witness ==
    /\ op = "calculate_cohort_retention"
    /\ out.value.total > out.value.retained[30]
    /\ out.value.retained[90] > out.value.retained[180]
    /\ out.value.retained[365] > 0

(***************************************************************************)
(* Who counts as churned (C14)                                             *)
(***************************************************************************)
\* a subscription the specification considers churned
IsChurned(sub) == sub.status \notin {"active", "past_due"} /\ sub.canceled_at # 0

\* daysActive when only churned subscriptions end at canceled_at
DaysActiveByStatus(sub) == (IF IsChurned(sub) THEN sub.canceled_at ELSE now) - sub.created

ChurnedIds == {subscriptions[i].id : i \in {n \in 1..Len(subscriptions) : IsChurned(subscriptions[n])}}

\* C14: a subscription is counted as churned only when its status is
\* neither active nor past_due and its canceled_at is set; an active or
\* past_due subscription with a canceled_at is treated as still active by
\* calculate_cohort_retention, calculate_early_churn and
\* calculate_steady_state_churn.
C14_ChurnedOnlyWhenNotActive ==
    /\ (op = "calculate_cohort_retention" /\ out.exc = "none") =>
          \A H \in {30, 60, 90, 180, 365} :
              out.value.retained[H] =
                  Cardinality({i \in 1..Len(subscriptions) : DaysActiveByStatus(subscriptions[i]) >= H})
    /\ (op \in {"calculate_early_churn", "calculate_steady_state_churn"} /\ out.exc = "none") =>
          out.value.churned_ids \subseteq ChurnedIds

(***************************************************************************)
(* Early churn (C15, C16)                                                  *)
(***************************************************************************)
\* the subscriptions created at least period_days before now
EligibleIds ==
    {subscriptions[i].id : i \in {n \in 1..Len(subscriptions) :
        now - subscriptions[n].created >= arg.early_period_days}}

\* those of them canceled within period_days of their creation
ChurnedEarlyIds ==
    {subscriptions[i].id : i \in {n \in 1..Len(subscriptions) :
        /\ now - subscriptions[n].created >= arg.early_period_days
        /\ subscriptions[n].canceled_at # 0
        /\ subscriptions[n].canceled_at - subscriptions[n].created <= arg.early_period_days}}

\* C15: calculate_early_churn analyses exactly the subscriptions created at
\* least period_days before now, counts as churned_early those canceled
\* within period_days of their creation, reports churn_rate = churned_early
\* / customers_analyzed * 100, and returns churn_rate 0 and
\* customers_analyzed 0 without error when none is eligible.
C15_EarlyChurn ==
    op = "calculate_early_churn" =>
        /\ out.exc = "none"
        /\ out.value.eligible_ids = EligibleIds
        /\ out.value.customers_analyzed = Cardinality(EligibleIds)
        /\ out.value.churned_ids = ChurnedEarlyIds
        /\ out.value.churned_early = Cardinality(ChurnedEarlyIds)
        /\ IF EligibleIds = {} THEN out.value.churn_rate = 0
           ELSE IsPctOf(out.value.churn_rate, Cardinality(ChurnedEarlyIds), Cardinality(EligibleIds))

\* a subscription that is period_days old to the second is analysed next to
\* one that churned early
C15_Witness ==
    /\ op = "calculate_early_churn"
    /\ out.exc = "none"
    /\ out.value.customers_analyzed = 2
    /\ out.value.churned_early = 1
    /\ out.value.churn_rate = 500
    /\ \E i \in 1..Len(subscriptions) : now - subscriptions[i].created = arg.early_period_days

\* C16: in every result of calculate_early_churn, retention_rate = 100 -
\* churn_rate and retained_past_early = customers_analyzed - churned_early,
\* zero eligible subscriptions included.
C16_EarlyRatesComplement ==
    (op = "calculate_early_churn" /\ out.exc = "none") =>
        /\ out.value.retention_rate = 100 * 10 - out.value.churn_rate
        /\ out.value.retained_past_early = out.value.customers_analyzed - out.value.churned_early

(***************************************************************************)
(* Steady-state churn (C17, C18)                                           *)
(***************************************************************************)
SubscriptionById(id) == subscriptions[CHOOSE i \in 1..Len(subscriptions) : subscriptions[i].id = id]

\* C17: on one list, clock and early_period_days no subscription is counted
\* both in churned_early and in churned_in_period; every subscription
\* counted in churned_in_period is a survivor canceled inside the lookback
\* window more than early_period_days after its creation; and
\* churned_in_period <= customers_analyzed.
C17_NoDoubleCounting ==
    (op = "get_attrition_summary" /\ out.exc = "none") =>
        LET early == out.value.early_churn
            steady == out.value.steady_state_churn
        IN /\ early.churned_ids \cap steady.churned_ids = {}
           /\ early.churned_early = Cardinality(early.churned_ids)
           /\ steady.churned_in_period = Cardinality(steady.churned_ids)
           /\ steady.customers_analyzed = Cardinality(steady.survivor_ids)
           /\ steady.churned_ids \subseteq steady.survivor_ids
           /\ steady.churned_in_period <= steady.customers_analyzed
           /\ \A id \in steady.churned_ids :
                 LET sub == SubscriptionById(id)
                 IN /\ sub.canceled_at >= now - arg.lookback_months * 30
                    /\ sub.canceled_at <= now
                    /\ sub.canceled_at - sub.created > arg.early_period_days

\* an early churner and a steady-state churner on one list
C17_Witness ==
    /\ op = "get_attrition_summary"
    /\ out.exc = "none"
    /\ out.value.early_churn.churned_early > 0
    /\ out.value.steady_state_churn.churned_in_period > 0

\* C18: average_lifespan_months is 100 / monthly rate when the monthly
\* churn rate is positive and 120 whenever it is 0, no survivors included;
\* it is never 0.
C18_LifespanSentinel ==
    (op = "calculate_steady_state_churn" /\ out.exc = "none") =>
        /\ out.value.average_lifespan_months # 0
        /\ IF out.value.churned_in_period > 0
           THEN 2 * Abs(out.value.average_lifespan_months * out.value.churned_in_period
                        - out.value.customers_analyzed * arg.lookback_months * 10)
                    <= out.value.churned_in_period
           ELSE out.value.average_lifespan_months = 120 * 10

(***************************************************************************)
(* Billing calendar (C19, C20)                                             *)
(***************************************************************************)
\* the subscriptions counted in a bucket
BilledIn(bucket) == {bucket.details[i].subscription_id : i \in 1..Len(bucket.details)}

RECURSIVE DetailsAmount(_)
DetailsAmount(details) ==
    IF details = << >> THEN 0 ELSE Head(details).amount + DetailsAmount(Tail(details))

\* C19: for every days in 1..90, no billing is in both the today and the
\* tomorrow bucket; every billing of today or tomorrow is also counted in
\* this_week and this_month; this_week.amount >= today.amount +
\* tomorrow.amount and this_month.amount >= this_week.amount; and each
\* bucket's count is the number of billings whose amounts make up its
\* amount.
C19_BillingBuckets ==
    (op = "get_upcoming_billings" /\ out.exc = "none") =>
        LET r == out.value IN
        /\ BilledIn(r.today) \cap BilledIn(r.tomorrow) = {}
        /\ BilledIn(r.today) \cup BilledIn(r.tomorrow) \subseteq BilledIn(r.this_week)
        /\ BilledIn(r.today) \cup BilledIn(r.tomorrow) \subseteq BilledIn(r.this_month)
        /\ r.this_week.amount >= r.today.amount + r.tomorrow.amount
        /\ r.this_month.amount >= r.this_week.amount
        /\ \A bucket \in {r.today, r.tomorrow, r.this_week, r.this_month} :
              /\ bucket.count = Len(bucket.details)
              /\ bucket.amount = DetailsAmount(bucket.details)

\* C20: the amount get_upcoming_billings assigns to a subscription is the
\* value calculate_mrr returns for that single subscription, for every
\* interval in day, week, month, year and every interval_count.
C20_BillingAmountIsMrr ==
    (op = "get_upcoming_billings" /\ out.exc = "none") =>
        \A i \in 1..Len(out.value.this_month.details) :
            LET info == out.value.this_month.details[i]
                sub == stripe[CHOOSE n \in 1..Len(stripe) : stripe[n].id = info.subscription_id]
            IN \E tie \in Ties :
                  info.amount = calculate_mrr(<<process_active(sub)>>, tie).value

(***************************************************************************)
(* The invoice amount of the projections (C21)                             *)
(***************************************************************************)
\* the bill due at current_period_end: the sum of the amounts of the items
RECURSIVE BillDue(_)
BillDue(items) == IF items = << >> THEN 0 ELSE Head(items).amount + BillDue(Tail(items))

\* the bills of the subscriptions a period counted, one per counting
RECURSIVE BillsDue(_)
BillsDue(ids) == IF ids = << >> THEN 0 ELSE BillDue(subscriptions[Head(ids)].items) + BillsDue(Tail(ids))

\* C21: in the month detail, the quarterly forecast and the annual
\* forecast, the invoice amount of a subscription is the sum of the amounts
\* of all its non-zero items, whatever the number of its items.
C21_InvoiceAmountIsBillDue ==
    /\ (op = "get_month_detail" /\ out.exc = "none") =>
          \A i \in 1..Len(out.value.invoices) :
             out.value.invoices[i].invoice_amount
                = BillDue(subscriptions[out.value.invoices[i].subscription_id].items)
    /\ op = "get_quarterly_revenue_forecast" =>
          \A q \in 1..Len(out.value.quarters) :
             out.value.quarters[q].projected_invoice_amount = BillsDue(out.value.quarters[q].invoicing)
    /\ op = "get_annual_revenue_forecast" =>
          \A k \in 1..Len(out.value.monthly_projections) :
             out.value.monthly_projections[k].projected_invoice_amount
                = BillsDue(out.value.monthly_projections[k].invoicing)

(***************************************************************************)
(* The quarters of the quarterly forecast (C22)                            *)
(***************************************************************************)
SeqToSet(seq) == {seq[i] : i \in 1..Len(seq)}

\* the subscriptions whose current_period_end falls in calendar quarter n
\* of a year
InCalendarQuarter(year, n) ==
    {i \in 1..Len(subscriptions) :
        /\ date_year(subscriptions[i].current_period_end) = year
        /\ date_month(subscriptions[i].current_period_end) \in (3 * n - 2)..(3 * n)}

\* C22: the entry labelled Qn YYYY counts exactly the subscriptions whose
\* current_period_end falls in months 3n-2..3n of YYYY, the entries are
\* consecutive quarters, and no subscription is counted in two entries.
C22_QuarterLabelsAreCalendarQuarters ==
    op = "get_quarterly_revenue_forecast" =>
       LET quarters == out.value.quarters IN
       /\ Len(quarters) = arg.quarters
       /\ \A q \in 1..Len(quarters) :
             /\ SeqToSet(quarters[q].invoicing) = InCalendarQuarter(quarters[q].year, quarters[q].quarter_number)
             /\ \A i, j \in 1..Len(quarters[q].invoicing) :
                   quarters[q].invoicing[i] = quarters[q].invoicing[j] => i = j
       /\ \A q \in 1..(Len(quarters) - 1) :
             4 * quarters[q + 1].year + quarters[q + 1].quarter_number
                = 4 * quarters[q].year + quarters[q].quarter_number + 1
       /\ \A q, r \in 1..Len(quarters) :
             q # r => SeqToSet(quarters[q].invoicing) \cap SeqToSet(quarters[r].invoicing) = {}

(***************************************************************************)
(* The months of the annual forecast (C29)                                 *)
(***************************************************************************)
\* a calendar month as a number of months since January of year 0
MonthIndex(year, month) == 12 * year + month - 1

\* C29: the annual forecast has 12 entries, for the 12 consecutive calendar
\* months that start at the current month, and a subscription whose
\* current_period_end lies in these months is counted in exactly one entry.
C29_AnnualForecastCoversTwelveMonths ==
    op = "get_annual_revenue_forecast" =>
       LET months == out.value.monthly_projections
           first == MonthIndex(date_year(now), date_month(now))
       IN /\ Len(months) = 12
          /\ \A k \in 1..12 : MonthIndex(months[k].year, months[k].month_number) = first + k - 1
          /\ \A i \in 1..Len(subscriptions) :
                LET due == MonthIndex(date_year(subscriptions[i].current_period_end),
                                      date_month(subscriptions[i].current_period_end))
                IN due \in first..(first + 11) =>
                      Cardinality({<<k, n>> \in (1..12) \X (1..MaxSubs + 1) :
                                     /\ n <= Len(months[k].invoicing)
                                     /\ months[k].invoicing[n] = i}) = 1

(***************************************************************************)
(* Validation of the windows (C24)                                         *)
(***************************************************************************)
\* C24: a month outside 1..12 that is passed to the month detail, 0
\* included, is rejected with a validation error and nothing is computed
\* for it.
C24_NonsensicalWindowRejected ==
    (op = "get_month_detail" /\ arg.month_given /\ arg.month \notin 1..12) =>
       out = Raise("HTTPException 400")

(***************************************************************************)
(* The numerator of the customer churn rate (C27)                          *)
(***************************************************************************)
\* C27: the churned customers of calculate_churn_rate are among the
\* customers active at the start of the window, so customers_churned is at
\* most customers_at_start and the customer churn rate at most 100 percent.
C27_ChurnedAmongActiveAtStart ==
    (op = "calculate_churn_rate" /\ out.exc = "none") =>
        /\ DistinctCustomers(out.value.churned_subscriptions)
              \subseteq DistinctCustomers(out.value.active_at_start)
        /\ out.value.customers_churned <= out.value.customers_at_start
        /\ out.value.customer_churn_rate <= 100 * 100

(***************************************************************************)
(* Bounded pagination (C23)                                                *)
(***************************************************************************)
\* C23: every paginated fetch is bounded by a maximum iteration count:
\* _paginate_stripe_list and get_all_subscriptions_with_lifecycle issue at
\* most MAX_ITERATIONS page requests and get_all_latest_metrics at most its
\* own maximum, whatever has_more the provider reports.
C23_FetchesAreBounded ==
    /\ op \in {"_paginate_stripe_list", "get_all_subscriptions_with_lifecycle"} =>
          Len(frame.requests) <= MAX_ITERATIONS
    /\ op = "get_all_latest_metrics" => frame.iteration <= CACHE_MAX_ITERATIONS

(***************************************************************************)
(* Pagination against an honest provider (C26)                             *)
(***************************************************************************)
\* the pages an honest provider serves its objects in
PagesServed == IF stripe.objects = 0 THEN 1 ELSE (stripe.objects + arg.page_size - 1) \div arg.page_size

\* the ids of the provider's objects that pass the filter and whose
\* processor result is not None, in provider order
PassingIds ==
    SelectSeq([i \in 1..stripe.objects |-> i],
              LAMBDA id : /\ arg.filter_fn = "odd_id" => id % 2 = 1
                          /\ arg.item_processor = "process" => id % 3 # 0)

C25_FallbackToCache ==
    [][(/\ op = "GET /attrition/summary"
        /\ out.exc = "none"
        /\ stripe.status = "down"
        /\ frame'.request_id = frame.request_id + 1
        /\ op' = "GET /attrition/summary") =>
           (/\ out'.exc = "none"
            /\ out'.value._from_cache
            /\ out'.value.data = out.value)]_vars

(***************************************************************************)
(* The billing amounts of the cash-flow summary (C30)                      *)
(***************************************************************************)
\* C30: when StripeService.get_upcoming_billings succeeds, the today,
\* tomorrow, this_week and this_month amounts of the cash-flow summary, its
\* expected inflows and the runway estimate derived from them are those of
\* the amounts get_upcoming_billings returned.
C30_SummaryAmountsAreBillingAmounts ==
    (op = "get_cashflow_summary" /\ "error" \notin DOMAIN out.value.billings_data) =>
       LET summary == out.value.summary
           billings == out.value.billings_data
       IN /\ summary.upcoming_billings.today.amount = billings.today.amount
          /\ summary.upcoming_billings.tomorrow.amount = billings.tomorrow.amount
          /\ summary.upcoming_billings.this_week.amount = billings.this_week.amount
          /\ summary.upcoming_billings.this_month.amount = billings.this_month.amount
          /\ summary.totals.expected_inflows_week = billings.this_week.amount
          /\ summary.totals.expected_inflows_month = billings.this_month.amount
          /\ summary.health_indicators.cash_runway_days
                = estimate_runway(arg.total_cash, billings.this_month.amount)

(***************************************************************************)
(* Invalidation of the memory cache (C28)                                  *)
(***************************************************************************)
\* the get_metrics call g is the next one for its product after the
\* invalidation i has completed
NextAfterInvalidation(i, g) ==
    /\ frame[i].fn = "invalidate"
    /\ frame[g].fn = "get_metrics"
    /\ frame[g].product = frame[i].product
    /\ frame[g].called_at > frame[i].done_at
    /\ \A h \in Tasks :
          (frame[h].fn = "get_metrics" /\ frame[h].product = frame[i].product) =>
             ~(frame[i].done_at < frame[h].called_at /\ frame[h].called_at < frame[g].called_at)

====
